---- MODULE Spec2Model ----
(***************************************************************************)
(* A model of the instruction executor of the zmu Cortex-M emulator        *)
(* (zmu_cortex_m/src/core/executor.rs) and of the data it works on.        *)
(*                                                                         *)
(* A 32-bit word is the pair <<hi, lo>> of its 16-bit halves, so that the  *)
(* arithmetic of the executor keeps its width exactly.  The operators `+`  *)
(* and `-` of the source are Rust's: they wrap in a build without overflow *)
(* checks and abort (panic) in a build with them; the variable             *)
(* overflow_checks fixes the build of a behaviour.                         *)
(***************************************************************************)
EXTENDS Integers, Sequences, FiniteSets, TLC

VARIABLES
    core,             \* the Core: registers, PSR, PRIMASK, CONTROL
    mem,              \* the bus: byte address -> non-zero byte
    result,           \* the ExecuteResult of the last execute call
    instr,            \* the Instruction of the last execute call
    pre,              \* core as it was when the last execute call began
    premem,           \* mem as it was when the last execute call began
    pcw,              \* the routines the last execute call wrote PC with
    semihost_calls,   \* the calls of semihost_func by the last execute call
    overflow_checks,  \* the build: TRUE = arithmetic overflow panics
    phase,            \* where the driver stands
    steps,            \* execute calls made so far
    saved             \* a scenario's snapshot of the core before its first call

vars == <<core, mem, result, instr, pre, premem, pcw, semihost_calls,
          overflow_checks, phase, steps, saved>>

-----------------------------------------------------------------------------
(* 32-bit words *)

Half == 2^16

U32(n) == <<n \div Half, n % Half>>

W0 == <<0, 0>>

WMax == <<Half - 1, Half - 1>>

IsWord(w) == w \in (0..(Half - 1)) \X (0..(Half - 1))

u32_add(a, b) ==
    LET lo == a[2] + b[2]
        hi == a[1] + b[1] + (lo \div Half)
    IN  <<hi % Half, lo % Half>>

u32_add_overflows(a, b) == a[1] + b[1] + ((a[2] + b[2]) \div Half) >= Half

u32_sub(a, b) ==
    LET lo == a[2] - b[2]
        hi == a[1] - b[1] - (IF lo < 0 THEN 1 ELSE 0)
    IN  <<hi % Half, lo % Half>>

u32_sub_overflows(a, b) == a[1] < b[1] \/ (a[1] = b[1] /\ a[2] < b[2])

\* (x as i32) + y, both read as two's complement
IsNeg(a) == a[1] >= Half \div 2

i32_add_overflows(a, b) == IsNeg(a) = IsNeg(b) /\ IsNeg(u32_add(a, b)) # IsNeg(a)

Bit(w, k) == IF k < 16 THEN (w[2] \div (2^k)) % 2 ELSE (w[1] \div (2^(k - 16))) % 2

RECURSIVE SumBits(_, _, _)
SumBits(f, from, k) ==
    IF k > 15 THEN 0 ELSE f[from + k] * (2^k) + SumBits(f, from, k + 1)

FromBits(f) == <<SumBits(f, 16, 0), SumBits(f, 0, 0)>>

u32_and(a, b) == FromBits([k \in 0..31 |-> Bit(a, k) * Bit(b, k)])

u32_or(a, b) == FromBits([k \in 0..31 |-> IF Bit(a, k) + Bit(b, k) > 0 THEN 1 ELSE 0])

u32_xor(a, b) == FromBits([k \in 0..31 |-> (Bit(a, k) + Bit(b, k)) % 2])

u32_shl(a, n) == FromBits([k \in 0..31 |-> IF k >= n THEN Bit(a, k - n) ELSE 0])

u32_shr(a, n) == FromBits([k \in 0..31 |-> IF k + n <= 31 THEN Bit(a, k + n) ELSE 0])

\* wrapping_mul, by 8-bit limbs
Limb(w, k) == IF k < 2 THEN (w[2] \div (256^k)) % 256 ELSE (w[1] \div (256^(k - 2))) % 256

wrapping_mul(a, b) ==
    LET p0 == Limb(a, 0) * Limb(b, 0)
        p1 == Limb(a, 0) * Limb(b, 1) + Limb(a, 1) * Limb(b, 0) + (p0 \div 256)
        p2 == Limb(a, 0) * Limb(b, 2) + Limb(a, 1) * Limb(b, 1)
              + Limb(a, 2) * Limb(b, 0) + (p1 \div 256)
        p3 == Limb(a, 0) * Limb(b, 3) + Limb(a, 1) * Limb(b, 2)
              + Limb(a, 2) * Limb(b, 1) + Limb(a, 3) * Limb(b, 0) + (p2 \div 256)
    IN  <<(p3 % 256) * 256 + (p2 % 256), (p1 % 256) * 256 + (p0 % 256)>>

-----------------------------------------------------------------------------
(* Reg *)

SP == 13
LR == 14
PC == 15

Regs == 0..15

-----------------------------------------------------------------------------
(* the bus: little-endian bytes; a word or halfword access that is not      *)
(* aligned fails, and as read32 and write32 return no error the failure is  *)
(* an abort of the call                                                     *)

read8(m, a) == IF a \in DOMAIN m THEN m[a] ELSE 0

write8(m, a, b) ==
    IF b = 0
    THEN [x \in (DOMAIN m) \ {a} |-> m[x]]
    ELSE [x \in (DOMAIN m) \cup {a} |-> IF x = a THEN b ELSE m[x]]

read16(m, a) == <<0, read8(m, u32_add(a, U32(1))) * 256 + read8(m, a)>>

write16(m, a, v) ==
    write8(write8(m, a, v[2] % 256), u32_add(a, U32(1)), v[2] \div 256)

read32(m, a) ==
    <<read8(m, u32_add(a, U32(3))) * 256 + read8(m, u32_add(a, U32(2))),
      read8(m, u32_add(a, U32(1))) * 256 + read8(m, a)>>

write32(m, a, v) ==
    write8(write8(write8(write8(m, a, v[2] % 256),
                         u32_add(a, U32(1)), v[2] \div 256),
                  u32_add(a, U32(2)), v[1] % 256),
           u32_add(a, U32(3)), v[1] \div 256)

aligned(a, size) == a[2] % size = 0

-----------------------------------------------------------------------------
(* Core: the register file and the program status *)

get_r(c, r) ==
    CASE r <= 12 -> c.r[r]
      [] r = SP  -> IF c.spsel THEN c.psp ELSE c.msp
      [] r = LR  -> c.lr
      [] OTHER   -> u32_add(c.pc, U32(4))

set_msp(c, v) == [c EXCEPT !.msp = v]

set_psp(c, v) == [c EXCEPT !.psp = v]

set_r(c, r, v) ==
    CASE r <= 12 -> [c EXCEPT !.r[r] = v]
      [] r = SP  -> IF c.spsel THEN set_psp(c, v) ELSE set_msp(c, v)
      [] r = LR  -> [c EXCEPT !.lr = v]
      [] OTHER   -> [c EXCEPT !.pc = v]

add_r(c, r, delta) == set_r(c, r, u32_add(get_r(c, r), delta))

set_n(c, res) == [c EXCEPT !.n = (Bit(res, 31) = 1)]

set_z(c, res) == [c EXCEPT !.z = (res = W0)]

set_c(c, carry) == [c EXCEPT !.c = carry]

set_v(c, overflow) == [c EXCEPT !.v = overflow]

set_nz(c, res) == set_z(set_n(c, res), res)

set_nzc(c, res, carry) == set_c(set_nz(c, res), carry)

set_nzcv(c, res, carry, overflow) == set_v(set_nzc(c, res, carry), overflow)

get_exception_number(c) == c.ipsr

set_itstate(c, state) == [c EXCEPT !.itstate = state]

branch_write_pc(c, address) ==
    [c EXCEPT !.pc = <<address[1], address[2] - (address[2] % 2)>>]

bx_write_pc(c, address) ==
    branch_write_pc([c EXCEPT !.tbit = (address[2] % 2 = 1)], address)

blx_write_pc(c, address) ==
    branch_write_pc([c EXCEPT !.tbit = (address[2] % 2 = 1)], address)

load_write_pc(c, address) == bx_write_pc(c, address)

condition_holds(cond, c) ==
    CASE cond = 0  -> c.z
      [] cond = 1  -> ~c.z
      [] cond = 2  -> c.c
      [] cond = 3  -> ~c.c
      [] cond = 4  -> c.n
      [] cond = 5  -> ~c.n
      [] cond = 6  -> c.v
      [] cond = 7  -> ~c.v
      [] cond = 8  -> c.c /\ ~c.z
      [] cond = 9  -> ~c.c \/ c.z
      [] cond = 10 -> c.n = c.v
      [] cond = 11 -> c.n # c.v
      [] cond = 12 -> ~c.z /\ (c.n = c.v)
      [] cond = 13 -> c.z \/ (c.n # c.v)
      [] OTHER     -> TRUE

in_it_block(c) == c.itstate % 16 # 0

condition_passed(c) ==
    IF in_it_block(c) THEN condition_holds(c.itstate \div 16, c) ELSE TRUE

condition_passed_b(c, cond) == condition_holds(cond, c)

\* ITSTATE<4:0> shifts left by one; the block ends when ITSTATE<2:0> is 0
it_advance(c) ==
    IF c.itstate % 8 = 0
    THEN [c EXCEPT !.itstate = 0]
    ELSE [c EXCEPT !.itstate = ((c.itstate \div 32) * 32) + (((c.itstate % 32) * 2) % 32)]

-----------------------------------------------------------------------------
(* operation: the arithmetic primitives *)

add_with_carry(x, y, carry_in) ==
    LET lo  == x[2] + y[2] + (IF carry_in THEN 1 ELSE 0)
        hi  == x[1] + y[1] + (lo \div Half)
        sum == <<hi % Half, lo % Half>>
    IN  [result   |-> sum,
         carry    |-> (hi >= Half),
         overflow |-> (IsNeg(x) = IsNeg(y) /\ IsNeg(sum) # IsNeg(x))]

decode_imm_shift(type, imm5) ==
    CASE type = 0 -> <<"LSL", imm5>>
      [] type = 1 -> <<"LSR", IF imm5 = 0 THEN 32 ELSE imm5>>
      [] type = 2 -> <<"ASR", IF imm5 = 0 THEN 32 ELSE imm5>>
      [] OTHER    -> IF imm5 = 0 THEN <<"RRX", 1>> ELSE <<"ROR", imm5>>

shift_c(value, srtype, amount, carry_in) ==
    IF srtype # "RRX" /\ amount = 0
    THEN [result |-> value, carry |-> carry_in]
    ELSE CASE srtype = "LSL" ->
                [result |-> u32_shl(value, amount),
                 carry  |-> (amount <= 32 /\ Bit(value, 32 - amount) = 1)]
           [] srtype = "LSR" ->
                [result |-> u32_shr(value, amount),
                 carry  |-> (amount <= 32 /\ Bit(value, amount - 1) = 1)]
           [] srtype = "ASR" ->
                [result |-> FromBits([k \in 0..31 |->
                                IF k + amount <= 31 THEN Bit(value, k + amount)
                                ELSE Bit(value, 31)]),
                 carry  |-> (IF amount <= 32 THEN Bit(value, amount - 1) = 1
                             ELSE Bit(value, 31) = 1)]
           [] srtype = "ROR" ->
                [result |-> FromBits([k \in 0..31 |-> Bit(value, (k + amount) % 32)]),
                 carry  |-> (Bit(value, (31 + amount) % 32) = 1)]
           [] OTHER ->
                [result |-> FromBits([k \in 0..31 |->
                                IF k = 31 THEN (IF carry_in THEN 1 ELSE 0)
                                ELSE Bit(value, k + 1)]),
                 carry  |-> (Bit(value, 0) = 1)]

\* bit msb of v replicated into the bits above it, below bit width
sign_extend(v, msb, width) ==
    FromBits([k \in 0..31 |->
        IF k <= msb THEN Bit(v, k) ELSE IF k < width THEN Bit(v, msb) ELSE 0])

bitfield_get_bits(v, lo, hi) ==
    FromBits([k \in 0..31 |-> IF k + lo < hi THEN Bit(v, k + lo) ELSE 0])

-----------------------------------------------------------------------------
(* ExecuteResult, and what one execute call leaves behind *)

Taken(n) == [kind |-> "Taken", cycles |-> n]

Branched(n) == [kind |-> "Branched", cycles |-> n]

NotTaken == [kind |-> "NotTaken", cycles |-> 0]

Fault == [kind |-> "Fault", cycles |-> 0]

\* the call did not return: panic!, unimplemented!, an overflow check, a bus failure
Panic == [kind |-> "Panic", cycles |-> 0]

\* no call of semihost_func
NoCalls == <<>>

Out(c, m, res, w, sh) ==
    [core |-> c, mem |-> m, result |-> res, pcw |-> w, semihost |-> sh]

Skip(c, m) == Out(c, m, NotTaken, {}, NoCalls)

Abort(c, m) == Out(c, m, Panic, {}, NoCalls)

\* set_r on r15 is a write of PC that no write_pc routine sees
Direct(r) == IF r = PC THEN {"set_r"} ELSE {}

Flags(c, setflags, c1) == IF setflags THEN c1 ELSE c

-----------------------------------------------------------------------------
(* execute, arm by arm: c the core, m the bus, i the instruction,           *)
(* oc the build's overflow checks                                           *)

ADC_reg(c, m, i, oc) ==
    IF condition_passed(c)
    THEN LET a  == add_with_carry(get_r(c, i.rn), get_r(c, i.rm), c.c)
             c1 == Flags(c, i.setflags, set_nzcv(c, a.result, a.carry, a.overflow))
         IN  Out(set_r(c1, i.rd, a.result), m, Taken(1), Direct(i.rd), NoCalls)
    ELSE Skip(c, m)

\* the shift arms: set_r, then N, Z, C when setflags
ShiftArm(c, m, i, value, srtype, shift_n) ==
    LET s  == shift_c(value, srtype, shift_n, c.c)
        c1 == set_r(c, i.rd, s.result)
    IN  Out(Flags(c1, i.setflags, set_nzc(c1, s.result, s.carry)), m, Taken(1),
            Direct(i.rd), NoCalls)

ASR_imm(c, m, i, oc) ==
    IF condition_passed(c)
    THEN ShiftArm(c, m, i, get_r(c, i.rm), "ASR", decode_imm_shift(2, i.imm5)[2])
    ELSE Skip(c, m)

ASR_reg(c, m, i, oc) ==
    IF condition_passed(c)
    THEN ShiftArm(c, m, i, get_r(c, i.rn), "ASR", get_r(c, i.rm)[2] % 256)
    ELSE Skip(c, m)

\* the logical arms: set_r, then N, Z when setflags
\* a logical arm that also clears C when it sets flags
LogicArm_clearing_carry(c, m, i, res) ==
    LET c1 == set_r(c, i.rd, res)
    IN  Out(Flags(c1, i.setflags, set_nzc(c1, res, FALSE)), m, Taken(1),
            Direct(i.rd), NoCalls)

LogicArm(c, m, i, res) ==
    LET c1 == set_r(c, i.rd, res)
    IN  Out(Flags(c1, i.setflags, set_nz(c1, res)), m, Taken(1), Direct(i.rd), NoCalls)

BIC_reg(c, m, i, oc) ==
    IF condition_passed(c)
    THEN LogicArm(c, m, i, u32_and(get_r(c, i.rn), u32_xor(get_r(c, i.rm), WMax)))
    ELSE Skip(c, m)

CPS(c, m, i, oc) ==
    Out([c EXCEPT !.primask = (i.im # "IE")], m, Taken(1), {}, NoCalls)

CBZ(c, m, i, oc) ==
    IF i.nonzero # (get_r(c, i.rn) = W0)
    THEN LET pc == get_r(c, PC)
         IN  IF oc /\ u32_add_overflows(pc, i.imm32)
             THEN Abort(c, m)
             ELSE Out(branch_write_pc(c, u32_add(pc, i.imm32)), m, Branched(1),
                      {"branch_write_pc"}, NoCalls)
    ELSE Out(c, m, Taken(1), {}, NoCalls)

\* DMB, DSB, ISB
Barrier(c, m, i, oc) ==
    IF condition_passed(c) THEN Out(c, m, Taken(4), {}, NoCalls) ELSE Skip(c, m)

\* an IT arm that is itself subject to the IT block it is in
IT_conditional(c, m, i, oc) ==
    IF condition_passed(c)
    THEN Out(set_itstate(c, (i.firstcond * 16 + i.mask) % 256), m, Taken(4), {}, NoCalls)
    ELSE Skip(c, m)

IT(c, m, i, oc) ==
    Out(set_itstate(c, (i.firstcond * 16 + i.mask) % 256), m, Taken(4), {}, NoCalls)

MRS(c, m, i, oc) ==
    IF condition_passed(c)
    THEN CASE i.spec_reg = "IPSR" ->
                Out(set_r(c, i.rd, U32(get_exception_number(c))), m, Taken(4),
                    Direct(i.rd), NoCalls)
           [] i.spec_reg = "PRIMASK" ->
                Out(set_r(c, i.rd, U32(IF c.primask THEN 1 ELSE 0)), m, Taken(4),
                    Direct(i.rd), NoCalls)
           [] OTHER -> Abort(c, m)
    ELSE Skip(c, m)

MSR_reg(c, m, i, oc) ==
    IF condition_passed(c)
    THEN CASE i.spec_reg = "MSP" -> Out(set_msp(c, get_r(c, i.rn)), m, Taken(4), {}, NoCalls)
           [] i.spec_reg = "PSP" -> Out(set_psp(c, get_r(c, i.rn)), m, Taken(4), {}, NoCalls)
           [] i.spec_reg = "PRIMASK" ->
                Out([c EXCEPT !.primask = (get_r(c, i.rn)[2] % 2 = 1)], m, Taken(4), {}, NoCalls)
           [] OTHER -> Abort(c, m)
    ELSE Skip(c, m)

MOV_reg(c, m, i, oc) ==
    IF condition_passed(c)
    THEN LET res == get_r(c, i.rm)
             c1  == set_r(c, i.rd, res)
         IN  IF i.rd # PC
             THEN Out(Flags(c1, i.setflags, set_nz(c1, res)), m, Taken(1), {}, NoCalls)
             ELSE Out(c1, m, Panic, {"set_r"}, NoCalls)
    ELSE Skip(c, m)

LSL_imm(c, m, i, oc) ==
    IF condition_passed(c)
    THEN ShiftArm(c, m, i, get_r(c, i.rm), "LSL", decode_imm_shift(0, i.imm5)[2])
    ELSE Skip(c, m)

LSL_reg(c, m, i, oc) ==
    IF condition_passed(c)
    THEN ShiftArm(c, m, i, get_r(c, i.rn), "LSL", get_r(c, i.rm)[2] % 256)
    ELSE Skip(c, m)

LSR_imm(c, m, i, oc) ==
    IF condition_passed(c)
    THEN ShiftArm(c, m, i, get_r(c, i.rm), "LSR", decode_imm_shift(1, i.imm5)[2])
    ELSE Skip(c, m)

LSR_reg(c, m, i, oc) ==
    IF condition_passed(c)
    THEN ShiftArm(c, m, i, get_r(c, i.rn), "LSR", get_r(c, i.rm)[2] % 256)
    ELSE Skip(c, m)

BL(c, m, i, oc) ==
    IF condition_passed(c)
    THEN LET pc == get_r(c, PC)
             c1 == set_r(c, LR, <<pc[1], pc[2] - (pc[2] % 2) + 1>>)
         IN  IF oc /\ i32_add_overflows(pc, i.imm32)
             THEN Abort(c1, m)
             ELSE Out(branch_write_pc(c1, u32_add(pc, i.imm32)), m, Branched(4),
                      {"branch_write_pc"}, NoCalls)
    ELSE Skip(c, m)

\* the command is the operation number and the argument block pointer
decode_semihostcmd(r0, r1) == [op |-> r0, block |-> r1]

\* the answer goes into r0
semihost_return(c, response) == set_r(c, 0, response)

\* one call of semihost_func that answered response
SemihostCall(cmd, response) == <<[cmd |-> cmd, response |-> response]>>

\* a BKPT arm that takes every immediate for the semihosting one
BKPT_any_immediate(c, m, i, oc, resp) ==
    LET semihost_cmd == decode_semihostcmd(get_r(c, 0), get_r(c, 1))
    IN  Out(semihost_return(c, resp), m, Taken(1), {},
            SemihostCall(semihost_cmd, resp))

\* semihost_func answers resp
BKPT(c, m, i, oc, resp) ==
    IF i.imm32 = U32(171)
    THEN LET semihost_cmd == decode_semihostcmd(get_r(c, 0), get_r(c, 1))
         IN  Out(semihost_return(c, resp), m, Taken(1), {},
                 SemihostCall(semihost_cmd, resp))
    ELSE Out(c, m, Taken(1), {}, NoCalls)

\* a NOP arm that moves PC past the instruction itself
NOP_advancing(c, m, i, oc) ==
    Out([c EXCEPT !.pc = u32_add(c.pc, U32(2))], m, Taken(1), {}, NoCalls)

NOP(c, m, i, oc) == Out(c, m, Taken(1), {}, NoCalls)

MUL(c, m, i, oc) ==
    IF condition_passed(c)
    THEN LogicArm(c, m, i, wrapping_mul(get_r(c, i.rn), get_r(c, i.rm)))
    ELSE Skip(c, m)

ORR_reg(c, m, i, oc) ==
    IF condition_passed(c)
    THEN LogicArm(c, m, i, u32_or(get_r(c, i.rn), get_r(c, i.rm)))
    ELSE Skip(c, m)

\* unimplemented!(): ORR_imm, MVN_imm, MCR, MCR2, LDC_imm, LDC2_imm, UDIV, UMLAL, SMLAL
Unimplemented(c, m, i, oc) == Abort(c, m)

EOR_reg(c, m, i, oc) ==
    IF condition_passed(c)
    THEN LogicArm(c, m, i, u32_xor(get_r(c, i.rn), get_r(c, i.rm)))
    ELSE Skip(c, m)

AND_reg(c, m, i, oc) ==
    IF condition_passed(c)
    THEN LogicArm(c, m, i, u32_and(get_r(c, i.rn), get_r(c, i.rm)))
    ELSE Skip(c, m)

BX(c, m, i, oc) ==
    IF condition_passed(c)
    THEN Out(bx_write_pc(c, get_r(c, i.rm)), m, Branched(3), {"bx_write_pc"}, NoCalls)
    ELSE Skip(c, m)

BLX(c, m, i, oc) ==
    IF condition_passed(c)
    THEN LET pc     == get_r(c, PC)
             target == get_r(c, i.rm)
             ret    == u32_sub(pc, U32(2))
         IN  IF oc /\ u32_sub_overflows(pc, U32(2))
             THEN Abort(c, m)
             ELSE Out(blx_write_pc(set_r(c, LR, <<ret[1], ret[2] - (ret[2] % 2) + 1>>),
                                   target),
                      m, Branched(3), {"blx_write_pc"}, NoCalls)
    ELSE Skip(c, m)

\* registers.iter(): the register set in ascending order
RECURSIVE iter(_)
iter(S) ==
    IF S = {} THEN <<>>
    ELSE LET x == CHOOSE y \in S : \A z \in S : y <= z
         IN  <<x>> \o iter(S \ {x})

Loop(c, m, address) == [core |-> c, mem |-> m, address |-> address, ok |-> TRUE, pcw |-> {}]

\* the loop of LDM (PC through load_write_pc) and of POP (PC through bx_write_pc)
RECURSIVE LoadLoop(_, _, _, _)
LoadLoop(st, regs, oc, writer) ==
    IF regs = <<>> \/ ~st.ok THEN st
    ELSE IF ~aligned(st.address, 4) THEN [st EXCEPT !.ok = FALSE]
    ELSE LET reg   == Head(regs)
             value == read32(st.mem, st.address)
             c1    == IF reg = PC
                      THEN (IF writer = "load_write_pc"
                            THEN load_write_pc(st.core, value)
                            ELSE bx_write_pc(st.core, value))
                      ELSE set_r(st.core, reg, value)
             st1   == [st EXCEPT !.core = c1,
                                 !.pcw = IF reg = PC THEN st.pcw \cup {writer} ELSE st.pcw]
         IN  IF oc /\ u32_add_overflows(st.address, U32(4))
             THEN [st1 EXCEPT !.ok = FALSE]
             ELSE LoadLoop([st1 EXCEPT !.address = u32_add(st.address, U32(4))],
                           Tail(regs), oc, writer)

\* the loop of PUSH and of STM
RECURSIVE StoreLoop(_, _, _)
StoreLoop(st, regs, oc) ==
    IF regs = <<>> \/ ~st.ok THEN st
    ELSE IF ~aligned(st.address, 4) THEN [st EXCEPT !.ok = FALSE]
    ELSE LET st1 == [st EXCEPT !.mem = write32(st.mem, st.address,
                                               get_r(st.core, Head(regs)))]
         IN  IF oc /\ u32_add_overflows(st.address, U32(4))
             THEN [st1 EXCEPT !.ok = FALSE]
             ELSE StoreLoop([st1 EXCEPT !.address = u32_add(st.address, U32(4))],
                            Tail(regs), oc)

LDM(c, m, i, oc) ==
    IF condition_passed(c)
    THEN LET regs_size == U32(4 * Cardinality(i.registers))
             st == LoadLoop(Loop(c, m, get_r(c, i.rn)), iter(i.registers), oc,
                            "load_write_pc")
             cc == 1 + Cardinality(i.registers)
         IN  IF ~st.ok THEN Out(st.core, st.mem, Panic, st.pcw, NoCalls)
             ELSE IF i.rn \notin i.registers
             THEN Out(add_r(st.core, i.rn, regs_size), st.mem,
                      IF PC \in i.registers THEN Branched(cc) ELSE Taken(cc),
                      st.pcw \cup Direct(i.rn), NoCalls)
             ELSE Out(st.core, st.mem,
                      IF PC \in i.registers THEN Branched(cc) ELSE Taken(cc), st.pcw, NoCalls)
    ELSE Skip(c, m)

MOV_imm(c, m, i, oc) ==
    IF condition_passed(c) THEN LogicArm(c, m, i, i.imm32) ELSE Skip(c, m)

MVN_reg(c, m, i, oc) ==
    IF condition_passed(c)
    THEN LogicArm(c, m, i, u32_xor(get_r(c, i.rm), WMax))
    ELSE Skip(c, m)

B(c, m, i, oc) ==
    IF condition_passed_b(c, i.cond)
    THEN LET pc == get_r(c, PC)
         IN  IF oc /\ i32_add_overflows(pc, i.imm32)
             THEN Abort(c, m)
             ELSE Out(branch_write_pc(c, u32_add(pc, i.imm32)), m, Branched(3),
                      {"branch_write_pc"}, NoCalls)
    ELSE Skip(c, m)

\* the compare arms: N, Z, C, V of add_with_carry, no register written
CompareArm(c, m, x, y, carry_in) ==
    LET a == add_with_carry(x, y, carry_in)
    IN  Out(set_nzcv(c, a.result, a.carry, a.overflow), m, Taken(1), {}, NoCalls)

\* a CMP_imm arm that leaves the carry-in of the subtraction out
CMP_imm_no_carry_in(c, m, i, oc) ==
    IF condition_passed(c)
    THEN CompareArm(c, m, get_r(c, i.rn), u32_xor(i.imm32, WMax), FALSE)
    ELSE Skip(c, m)

CMP_imm(c, m, i, oc) ==
    IF condition_passed(c)
    THEN CompareArm(c, m, get_r(c, i.rn), u32_xor(i.imm32, WMax), TRUE)
    ELSE Skip(c, m)

CMP_reg(c, m, i, oc) ==
    IF condition_passed(c)
    THEN CompareArm(c, m, get_r(c, i.rn), u32_xor(get_r(c, i.rm), WMax), TRUE)
    ELSE Skip(c, m)

CMN_reg(c, m, i, oc) ==
    IF condition_passed(c)
    THEN CompareArm(c, m, get_r(c, i.rn), get_r(c, i.rm), FALSE)
    ELSE Skip(c, m)

PUSH(c, m, i, oc) ==
    IF condition_passed(c)
    THEN LET regs_size == U32(4 * Cardinality(i.registers))
             sp == get_r(c, SP)
         IN  IF oc /\ u32_sub_overflows(sp, regs_size)
             THEN Abort(c, m)
             ELSE LET st == StoreLoop(Loop(c, m, u32_sub(sp, regs_size)),
                                      iter(i.registers), oc)
                  IN  IF ~st.ok THEN Abort(c, st.mem)
                      ELSE Out(set_r(c, SP, u32_sub(sp, regs_size)), st.mem,
                               Taken(1 + Cardinality(i.registers)), {}, NoCalls)
    ELSE Skip(c, m)

POP(c, m, i, oc) ==
    IF condition_passed(c)
    THEN LET regs_size == U32(4 * Cardinality(i.registers))
             sp == get_r(c, SP)
             st == LoadLoop(Loop(c, m, sp), iter(i.registers), oc, "bx_write_pc")
         IN  IF ~st.ok \/ (oc /\ u32_add_overflows(sp, regs_size))
             THEN Out(st.core, st.mem, Panic, st.pcw, NoCalls)
             ELSE Out(set_r(st.core, SP, u32_add(sp, regs_size)), st.mem,
                      IF PC \in i.registers
                      THEN Branched(4 + Cardinality(i.registers))
                      ELSE Taken(1 + Cardinality(i.registers)),
                      st.pcw, NoCalls)
    ELSE Skip(c, m)

\* rn + imm32 when add, rn - imm32 when not
offset_address(c, i) ==
    IF i.add THEN u32_add(get_r(c, i.rn), i.imm32) ELSE u32_sub(get_r(c, i.rn), i.imm32)

offset_overflows(c, i) ==
    IF i.add THEN u32_add_overflows(get_r(c, i.rn), i.imm32)
    ELSE u32_sub_overflows(get_r(c, i.rn), i.imm32)

LDR_imm(c, m, i, oc) ==
    IF condition_passed(c)
    THEN IF oc /\ offset_overflows(c, i) THEN Abort(c, m)
         ELSE LET address == IF i.index THEN offset_address(c, i) ELSE get_r(c, i.rn)
                  data    == read32(m, address)
                  c1      == IF i.wback THEN set_r(c, i.rn, offset_address(c, i)) ELSE c
                  w1      == IF i.wback THEN Direct(i.rn) ELSE {}
              IN  IF ~aligned(address, 4) THEN Abort(c, m)
                  ELSE IF i.rt = PC
                  THEN Out(load_write_pc(c1, data), m, Branched(1),
                           w1 \cup {"load_write_pc"}, NoCalls)
                  ELSE Out(set_r(c1, i.rt, data), m, Taken(1), w1, NoCalls)
    ELSE Skip(c, m)

\* the loads that only set_r(rt, value): Taken {cycles: 2}
LoadArm(c, m, i, oc, overflows, address, size, value) ==
    IF oc /\ overflows THEN Abort(c, m)
    ELSE IF ~aligned(address, size) THEN Abort(c, m)
    ELSE Out(set_r(c, i.rt, value), m, Taken(2), Direct(i.rt), NoCalls)

LDR_reg(c, m, i, oc) ==
    IF condition_passed(c)
    THEN LET address == u32_add(get_r(c, i.rn), get_r(c, i.rm))
         IN  IF oc /\ u32_add_overflows(get_r(c, i.rn), get_r(c, i.rm)) THEN Abort(c, m)
             ELSE IF ~aligned(address, 4) THEN Abort(c, m)
             ELSE IF i.rt = PC
             THEN Out(load_write_pc(c, read32(m, address)), m, Branched(2),
                      {"load_write_pc"}, NoCalls)
             ELSE Out(set_r(c, i.rt, read32(m, address)), m, Taken(2), {}, NoCalls)
    ELSE Skip(c, m)

LDRB_imm(c, m, i, oc) ==
    IF condition_passed(c)
    THEN LET address == u32_add(get_r(c, i.rn), i.imm32)
         IN  LoadArm(c, m, i, oc, u32_add_overflows(get_r(c, i.rn), i.imm32),
                     address, 1, <<0, read8(m, address)>>)
    ELSE Skip(c, m)

LDRB_reg(c, m, i, oc) ==
    IF condition_passed(c)
    THEN LET address == u32_add(get_r(c, i.rn), get_r(c, i.rm))
         IN  LoadArm(c, m, i, oc, u32_add_overflows(get_r(c, i.rn), get_r(c, i.rm)),
                     address, 1, <<0, read8(m, address)>>)
    ELSE Skip(c, m)

LDRH_imm(c, m, i, oc) ==
    IF condition_passed(c)
    THEN LET address == u32_add(get_r(c, i.rn), i.imm32)
         IN  LoadArm(c, m, i, oc, u32_add_overflows(get_r(c, i.rn), i.imm32),
                     address, 2, read16(m, address))
    ELSE Skip(c, m)

LDRH_reg(c, m, i, oc) ==
    IF condition_passed(c)
    THEN LET address == u32_add(get_r(c, i.rn), get_r(c, i.rm))
         IN  LoadArm(c, m, i, oc, u32_add_overflows(get_r(c, i.rn), get_r(c, i.rm)),
                     address, 2, read16(m, address))
    ELSE Skip(c, m)

LDRSH_reg(c, m, i, oc) ==
    IF condition_passed(c)
    THEN LET address == u32_add(get_r(c, i.rn), get_r(c, i.rm))
         IN  LoadArm(c, m, i, oc, u32_add_overflows(get_r(c, i.rn), get_r(c, i.rm)),
                     address, 2, sign_extend(read16(m, address), 15, 32))
    ELSE Skip(c, m)

LDRSB_reg(c, m, i, oc) ==
    IF condition_passed(c)
    THEN LET address == u32_add(get_r(c, i.rn), get_r(c, i.rm))
         IN  LoadArm(c, m, i, oc, u32_add_overflows(get_r(c, i.rn), get_r(c, i.rm)),
                     address, 1, sign_extend(<<0, read8(m, address)>>, 7, 32))
    ELSE Skip(c, m)

\* the arithmetic arms: N, Z, C, V when setflags, then set_r
ArithArm(c, m, i, x, y, carry_in) ==
    LET a  == add_with_carry(x, y, carry_in)
        c1 == Flags(c, i.setflags, set_nzcv(c, a.result, a.carry, a.overflow))
    IN  Out(set_r(c1, i.rd, a.result), m, Taken(1), Direct(i.rd), NoCalls)

SBC_reg(c, m, i, oc) ==
    IF condition_passed(c)
    THEN ArithArm(c, m, i, get_r(c, i.rn), u32_xor(get_r(c, i.rm), WMax), c.c)
    ELSE Skip(c, m)

STM(c, m, i, oc) ==
    IF condition_passed(c)
    THEN LET regs_size == U32(4 * Cardinality(i.registers))
             st == StoreLoop(Loop(c, m, get_r(c, i.rn)), iter(i.registers), oc)
         IN  IF ~st.ok THEN Abort(c, st.mem)
             ELSE Out(IF i.wback THEN add_r(c, i.rn, regs_size) ELSE c, st.mem,
                      Taken(1 + Cardinality(i.registers)),
                      IF i.wback THEN Direct(i.rn) ELSE {}, NoCalls)
    ELSE Skip(c, m)

STR_imm(c, m, i, oc) ==
    IF condition_passed(c)
    THEN IF oc /\ offset_overflows(c, i) THEN Abort(c, m)
         ELSE LET address == IF i.index THEN offset_address(c, i) ELSE get_r(c, i.rn)
                  value   == get_r(c, i.rt)
                  c1      == IF i.wback THEN set_r(c, i.rn, offset_address(c, i)) ELSE c
                  w1      == IF i.wback THEN Direct(i.rn) ELSE {}
              IN  IF ~aligned(address, 4) THEN Out(c1, m, Panic, w1, NoCalls)
                  ELSE Out(c1, write32(m, address, value), Taken(2), w1, NoCalls)
    ELSE Skip(c, m)

\* the stores that only write the bus: Taken {cycles: 2}
StoreArm(c, m, oc, overflows, address, size, m1) ==
    IF oc /\ overflows THEN Abort(c, m)
    ELSE IF ~aligned(address, size) THEN Abort(c, m)
    ELSE Out(c, m1, Taken(2), {}, NoCalls)

STR_reg(c, m, i, oc) ==
    IF condition_passed(c)
    THEN LET address == u32_add(get_r(c, i.rn), get_r(c, i.rm))
         IN  StoreArm(c, m, oc, u32_add_overflows(get_r(c, i.rn), get_r(c, i.rm)),
                      address, 4, write32(m, address, get_r(c, i.rt)))
    ELSE Skip(c, m)

STRB_reg(c, m, i, oc) ==
    IF condition_passed(c)
    THEN LET address == u32_add(get_r(c, i.rn), get_r(c, i.rm))
         IN  StoreArm(c, m, oc, u32_add_overflows(get_r(c, i.rn), get_r(c, i.rm)),
                      address, 1, write8(m, address, get_r(c, i.rt)[2] % 256))
    ELSE Skip(c, m)

STRB_imm(c, m, i, oc) ==
    IF condition_passed(c)
    THEN LET address == u32_add(get_r(c, i.rn), i.imm32)
         IN  StoreArm(c, m, oc, u32_add_overflows(get_r(c, i.rn), i.imm32),
                      address, 1, write8(m, address, get_r(c, i.rt)[2] % 256))
    ELSE Skip(c, m)

STRH_imm(c, m, i, oc) ==
    IF condition_passed(c)
    THEN LET address == u32_add(get_r(c, i.rn), i.imm32)
         IN  StoreArm(c, m, oc, u32_add_overflows(get_r(c, i.rn), i.imm32),
                      address, 2, write16(m, address, <<0, get_r(c, i.rt)[2]>>))
    ELSE Skip(c, m)

STRH_reg(c, m, i, oc) ==
    IF condition_passed(c)
    THEN LET address == u32_add(get_r(c, i.rn), get_r(c, i.rm))
         IN  StoreArm(c, m, oc, u32_add_overflows(get_r(c, i.rn), get_r(c, i.rm)),
                      address, 2, write16(m, address, <<0, get_r(c, i.rt)[2]>>))
    ELSE Skip(c, m)

\* PC & 0xffff_fffc
align4(w) == <<w[1], w[2] - (w[2] % 4)>>

LDR_lit(c, m, i, oc) ==
    IF condition_passed(c)
    THEN LET base    == align4(get_r(c, PC))
             address == u32_add(base, i.imm32)
         IN  IF oc /\ u32_add_overflows(base, i.imm32) THEN Abort(c, m)
             ELSE IF ~aligned(address, 4) THEN Abort(c, m)
             ELSE Out(set_r(c, i.rt, read32(m, address)), m, Taken(2), Direct(i.rt), NoCalls)
    ELSE Skip(c, m)

\* an ADD_reg arm that adds the carry flag in, as ADC does
ADD_reg_with_carry(c, m, i, oc) ==
    IF condition_passed(c)
    THEN ArithArm(c, m, i, get_r(c, i.rn), get_r(c, i.rm), c.c)
    ELSE Skip(c, m)

ADD_reg(c, m, i, oc) ==
    IF condition_passed(c)
    THEN IF i.rd = PC
         THEN Out(branch_write_pc(c, add_with_carry(get_r(c, i.rn), get_r(c, i.rm),
                                                    FALSE).result),
                  m, Branched(3), {"branch_write_pc"}, NoCalls)
         ELSE ArithArm(c, m, i, get_r(c, i.rn), get_r(c, i.rm), FALSE)
    ELSE Skip(c, m)

ADD_imm(c, m, i, oc) ==
    IF condition_passed(c)
    THEN ArithArm(c, m, i, get_r(c, i.rn), i.imm32, FALSE)
    ELSE Skip(c, m)

\* the arms that only set_r(rd, value): Taken {cycles: 1}
MoveArm(c, m, i, value) == Out(set_r(c, i.rd, value), m, Taken(1), Direct(i.rd), NoCalls)

ADR(c, m, i, oc) ==
    IF condition_passed(c)
    THEN IF oc /\ u32_add_overflows(align4(get_r(c, PC)), i.imm32) THEN Abort(c, m)
         ELSE MoveArm(c, m, i, u32_add(align4(get_r(c, PC)), i.imm32))
    ELSE Skip(c, m)

RSB_imm(c, m, i, oc) ==
    IF condition_passed(c)
    THEN ArithArm(c, m, i, u32_xor(get_r(c, i.rn), WMax), i.imm32, TRUE)
    ELSE Skip(c, m)

\* a SUB_imm arm that leaves the carry-in out: x + NOT y, one short of x - y
SUB_imm_no_carry_in(c, m, i, oc) ==
    IF condition_passed(c)
    THEN ArithArm(c, m, i, get_r(c, i.rn), u32_xor(i.imm32, WMax), FALSE)
    ELSE Skip(c, m)

SUB_imm(c, m, i, oc) ==
    IF condition_passed(c)
    THEN ArithArm(c, m, i, get_r(c, i.rn), u32_xor(i.imm32, WMax), TRUE)
    ELSE Skip(c, m)

SUB_reg(c, m, i, oc) ==
    IF condition_passed(c)
    THEN ArithArm(c, m, i, get_r(c, i.rn), u32_xor(get_r(c, i.rm), WMax), TRUE)
    ELSE Skip(c, m)

TBB(c, m, i, oc) ==
    IF condition_passed(c)
    THEN LET r_n == get_r(c, i.rn)
             r_m == get_r(c, i.rm)
             pc  == get_r(c, PC)
             halfwords == read8(m, u32_add(r_n, r_m))
         IN  IF oc /\ (u32_add_overflows(r_n, r_m)
                       \/ u32_add_overflows(pc, U32(2 * halfwords)))
             THEN Abort(c, m)
             ELSE Out(branch_write_pc(c, u32_add(pc, U32(2 * halfwords))), m,
                      Branched(1), {"branch_write_pc"}, NoCalls)
    ELSE Skip(c, m)

TST_reg(c, m, i, oc) ==
    IF condition_passed(c)
    THEN Out(set_nz(c, u32_and(get_r(c, i.rn), get_r(c, i.rm))), m, Taken(1), {}, NoCalls)
    ELSE Skip(c, m)

UXTB(c, m, i, oc) ==
    IF condition_passed(c)
    THEN MoveArm(c, m, i, bitfield_get_bits(get_r(c, i.rm), 0, 8))
    ELSE Skip(c, m)

UXTH(c, m, i, oc) ==
    IF condition_passed(c)
    THEN MoveArm(c, m, i, bitfield_get_bits(get_r(c, i.rm), 0, 16))
    ELSE Skip(c, m)

SXTB(c, m, i, oc) ==
    IF condition_passed(c)
    THEN MoveArm(c, m, i, sign_extend(bitfield_get_bits(get_r(c, i.rm), 0, 8), 7, 32))
    ELSE Skip(c, m)

SXTH(c, m, i, oc) ==
    IF condition_passed(c)
    THEN MoveArm(c, m, i, sign_extend(bitfield_get_bits(get_r(c, i.rm), 0, 16), 15, 32))
    ELSE Skip(c, m)

REV(c, m, i, oc) ==
    IF condition_passed(c)
    THEN LET rm_ == get_r(c, i.rm)
         IN  MoveArm(c, m, i, <<(rm_[2] % 256) * 256 + (rm_[2] \div 256),
                                (rm_[1] % 256) * 256 + (rm_[1] \div 256)>>)
    ELSE Skip(c, m)

REV16(c, m, i, oc) ==
    IF condition_passed(c)
    THEN LET rm_ == get_r(c, i.rm)
         IN  MoveArm(c, m, i, <<(rm_[1] % 256) * 256 + (rm_[1] \div 256),
                                (rm_[2] % 256) * 256 + (rm_[2] \div 256)>>)
    ELSE Skip(c, m)

REVSH(c, m, i, oc) ==
    IF condition_passed(c)
    THEN LET rm_ == get_r(c, i.rm)
         IN  MoveArm(c, m, i,
                     u32_add(u32_shl(sign_extend(<<0, rm_[2] % 256>>, 7, 24), 8),
                             <<0, rm_[2] \div 256>>))
    ELSE Skip(c, m)

ROR_reg(c, m, i, oc) ==
    IF condition_passed(c)
    THEN ShiftArm(c, m, i, get_r(c, i.rn), "ROR", get_r(c, i.rm)[2] % 256)
    ELSE Skip(c, m)

\* SVC, SEV, WFE, WFI, YIELD
Hint(c, m, i, oc) ==
    IF condition_passed(c) THEN Out(c, m, Taken(1), {}, NoCalls) ELSE Skip(c, m)

UDF(c, m, i, oc) == Abort(c, m)

execute(c, m, i, oc, resp) ==
    CASE i.op = "ADC_reg" -> ADC_reg(c, m, i, oc)
      [] i.op = "ASR_imm" -> ASR_imm(c, m, i, oc)
      [] i.op = "ASR_reg" -> ASR_reg(c, m, i, oc)
      [] i.op = "BIC_reg" -> BIC_reg(c, m, i, oc)
      [] i.op = "CPS" -> CPS(c, m, i, oc)
      [] i.op = "CBZ" -> CBZ(c, m, i, oc)
      [] i.op \in {"DMB", "DSB", "ISB"} -> Barrier(c, m, i, oc)
      [] i.op = "IT" -> IT(c, m, i, oc)
      [] i.op = "MRS" -> MRS(c, m, i, oc)
      [] i.op = "MSR_reg" -> MSR_reg(c, m, i, oc)
      [] i.op = "MOV_reg" -> MOV_reg(c, m, i, oc)
      [] i.op = "LSL_imm" -> LSL_imm(c, m, i, oc)
      [] i.op = "LSL_reg" -> LSL_reg(c, m, i, oc)
      [] i.op = "LSR_imm" -> LSR_imm(c, m, i, oc)
      [] i.op = "LSR_reg" -> LSR_reg(c, m, i, oc)
      [] i.op = "BL" -> BL(c, m, i, oc)
      [] i.op = "BKPT" -> BKPT(c, m, i, oc, resp)
      [] i.op = "NOP" -> NOP(c, m, i, oc)
      [] i.op = "MUL" -> MUL(c, m, i, oc)
      [] i.op = "ORR_reg" -> ORR_reg(c, m, i, oc)
      [] i.op \in {"ORR_imm", "MVN_imm", "MCR", "MCR2", "LDC_imm", "LDC2_imm",
                   "UDIV", "UMLAL", "SMLAL"} -> Unimplemented(c, m, i, oc)
      [] i.op = "EOR_reg" -> EOR_reg(c, m, i, oc)
      [] i.op = "AND_reg" -> AND_reg(c, m, i, oc)
      [] i.op = "BX" -> BX(c, m, i, oc)
      [] i.op = "BLX" -> BLX(c, m, i, oc)
      [] i.op = "LDM" -> LDM(c, m, i, oc)
      [] i.op = "MOV_imm" -> MOV_imm(c, m, i, oc)
      [] i.op = "MVN_reg" -> MVN_reg(c, m, i, oc)
      [] i.op = "B" -> B(c, m, i, oc)
      [] i.op = "CMP_imm" -> CMP_imm(c, m, i, oc)
      [] i.op = "CMP_reg" -> CMP_reg(c, m, i, oc)
      [] i.op = "CMN_reg" -> CMN_reg(c, m, i, oc)
      [] i.op = "PUSH" -> PUSH(c, m, i, oc)
      [] i.op = "POP" -> POP(c, m, i, oc)
      [] i.op = "LDR_imm" -> LDR_imm(c, m, i, oc)
      [] i.op = "LDR_reg" -> LDR_reg(c, m, i, oc)
      [] i.op = "LDRB_imm" -> LDRB_imm(c, m, i, oc)
      [] i.op = "LDRB_reg" -> LDRB_reg(c, m, i, oc)
      [] i.op = "LDRH_imm" -> LDRH_imm(c, m, i, oc)
      [] i.op = "LDRH_reg" -> LDRH_reg(c, m, i, oc)
      [] i.op = "LDRSH_reg" -> LDRSH_reg(c, m, i, oc)
      [] i.op = "LDRSB_reg" -> LDRSB_reg(c, m, i, oc)
      [] i.op = "SBC_reg" -> SBC_reg(c, m, i, oc)
      [] i.op = "STM" -> STM(c, m, i, oc)
      [] i.op = "STR_imm" -> STR_imm(c, m, i, oc)
      [] i.op = "STR_reg" -> STR_reg(c, m, i, oc)
      [] i.op = "STRB_reg" -> STRB_reg(c, m, i, oc)
      [] i.op = "STRB_imm" -> STRB_imm(c, m, i, oc)
      [] i.op = "STRH_imm" -> STRH_imm(c, m, i, oc)
      [] i.op = "STRH_reg" -> STRH_reg(c, m, i, oc)
      [] i.op = "LDR_lit" -> LDR_lit(c, m, i, oc)
      [] i.op = "ADD_reg" -> ADD_reg(c, m, i, oc)
      [] i.op = "ADD_imm" -> ADD_imm(c, m, i, oc)
      [] i.op = "ADR" -> ADR(c, m, i, oc)
      [] i.op = "RSB_imm" -> RSB_imm(c, m, i, oc)
      [] i.op = "SUB_imm" -> SUB_imm(c, m, i, oc)
      [] i.op = "SUB_reg" -> SUB_reg(c, m, i, oc)
      [] i.op = "TBB" -> TBB(c, m, i, oc)
      [] i.op = "TST_reg" -> TST_reg(c, m, i, oc)
      [] i.op = "UXTB" -> UXTB(c, m, i, oc)
      [] i.op = "UXTH" -> UXTH(c, m, i, oc)
      [] i.op = "SXTB" -> SXTB(c, m, i, oc)
      [] i.op = "SXTH" -> SXTH(c, m, i, oc)
      [] i.op = "REV" -> REV(c, m, i, oc)
      [] i.op = "REV16" -> REV16(c, m, i, oc)
      [] i.op = "REVSH" -> REVSH(c, m, i, oc)
      [] i.op = "ROR_reg" -> ROR_reg(c, m, i, oc)
      [] i.op \in {"SVC", "SEV", "WFE", "WFI", "YIELD"} -> Hint(c, m, i, oc)
      [] i.op = "UDF" -> UDF(c, m, i, oc)

-----------------------------------------------------------------------------
(* the driver around execute: PC past an instruction that did not branch,   *)
(* the IT-state advanced after every instruction of a block                 *)

Width(i) == IF i.thumb32 THEN 4 ELSE 2

retire(c, i, res) ==
    LET c1 == IF res.kind \in {"Taken", "NotTaken"}
              THEN [c EXCEPT !.pc = u32_add(c.pc, U32(Width(i)))]
              ELSE c
    IN  IF i.op # "IT" /\ in_it_block(c1) THEN it_advance(c1) ELSE c1

-----------------------------------------------------------------------------
(* Instruction: one record shape for every variant, the fields a variant    *)
(* does not carry at their defaults                                         *)

Ins(op) ==
    [op |-> op, rd |-> 0, rn |-> 0, rm |-> 0, rt |-> 0, imm32 |-> W0, imm5 |-> 0,
     setflags |-> FALSE, registers |-> {}, index |-> TRUE, add |-> TRUE,
     wback |-> FALSE, thumb32 |-> FALSE, cond |-> 14, firstcond |-> 0, mask |-> 0,
     nonzero |-> FALSE, im |-> "IE", spec_reg |-> "IPSR", shift_t |-> "LSL",
     shift_n |-> 0]

Ins32(op) == [Ins(op) EXCEPT !.thumb32 = TRUE]

\* rd, rn, rm, setflags
DP(op, rd, rn, rm, s) == [Ins(op) EXCEPT !.rd = rd, !.rn = rn, !.rm = rm, !.setflags = s]

\* rd, rn, imm32, setflags
DPI(op, rd, rn, imm, s) ==
    [Ins(op) EXCEPT !.rd = rd, !.rn = rn, !.imm32 = imm, !.setflags = s]

\* rd, rm, imm5, setflags
SHI(op, rd, rm, imm5, s) ==
    [Ins(op) EXCEPT !.rd = rd, !.rm = rm, !.imm5 = imm5, !.setflags = s]

\* rt, rn, rm
LSR3(op, rt, rn, rm) == [Ins(op) EXCEPT !.rt = rt, !.rn = rn, !.rm = rm]

\* rt, rn, imm32
LSI(op, rt, rn, imm) == [Ins(op) EXCEPT !.rt = rt, !.rn = rn, !.imm32 = imm]

\* rt, rn, imm32, index, add, wback
LSX(op, rt, rn, imm, index, add, wback) ==
    [Ins(op) EXCEPT !.rt = rt, !.rn = rn, !.imm32 = imm, !.index = index,
                    !.add = add, !.wback = wback]

RegList(op, rn, registers, wback) ==
    [Ins(op) EXCEPT !.rn = rn, !.registers = registers, !.wback = wback]

ITins(firstcond, mask) == [Ins("IT") EXCEPT !.firstcond = firstcond, !.mask = mask]

EQ == 0
NE == 1
AL == 14

-----------------------------------------------------------------------------
(* the machine, driven with any instruction *)

MaxSteps == 2

\* what semihost_func may answer
Responses == {W0, WMax}

Instrs ==
    { DP("ADC_reg", 4, 4, 5, TRUE), SHI("ASR_imm", 4, 3, 1, TRUE),
      DP("ASR_reg", 4, 3, 6, TRUE), DP("BIC_reg", 4, 3, 4, TRUE),
      [Ins("CPS") EXCEPT !.im = "IE"], [Ins("CPS") EXCEPT !.im = "ID"],
      [Ins("CBZ") EXCEPT !.rn = 0, !.nonzero = FALSE, !.imm32 = U32(8)],
      [Ins("CBZ") EXCEPT !.rn = 0, !.nonzero = TRUE, !.imm32 = U32(8)],
      Ins32("DMB"), Ins32("DSB"), Ins32("ISB"),
      ITins(EQ, 8), ITins(NE, 8), ITins(EQ, 12),
      [Ins32("MRS") EXCEPT !.rd = 4, !.spec_reg = "IPSR"],
      [Ins32("MRS") EXCEPT !.rd = 4, !.spec_reg = "PRIMASK"],
      [Ins32("MRS") EXCEPT !.rd = 4, !.spec_reg = "MSP"],
      [Ins32("MSR_reg") EXCEPT !.rn = 1, !.spec_reg = "MSP"],
      [Ins32("MSR_reg") EXCEPT !.rn = 1, !.spec_reg = "PSP"],
      [Ins32("MSR_reg") EXCEPT !.rn = 2, !.spec_reg = "PRIMASK"],
      [Ins32("MSR_reg") EXCEPT !.rn = 1, !.spec_reg = "CONTROL"],
      DP("MOV_reg", 4, 0, 2, TRUE), DP("MOV_reg", PC, 0, 2, FALSE),
      SHI("LSL_imm", 4, 3, 1, TRUE), DP("LSL_reg", 4, 3, 6, TRUE),
      SHI("LSR_imm", 4, 3, 0, TRUE), DP("LSR_reg", 4, 3, 6, TRUE),
      [Ins32("BL") EXCEPT !.imm32 = U32(64)],
      [Ins("BKPT") EXCEPT !.imm32 = U32(171)], [Ins("BKPT") EXCEPT !.imm32 = W0],
      Ins("NOP"),
      DP("MUL", 4, 3, 5, TRUE), DP("ORR_reg", 4, 4, 5, TRUE),
      [DPI("ORR_imm", 4, 4, U32(1), TRUE) EXCEPT !.thumb32 = TRUE],
      DP("EOR_reg", 4, 4, 4, TRUE), DP("AND_reg", 4, 3, 5, TRUE),
      [Ins("BX") EXCEPT !.rm = LR], [Ins("BX") EXCEPT !.rm = 1],
      [Ins("BLX") EXCEPT !.rm = 2], [Ins("BLX") EXCEPT !.rm = LR],
      RegList("LDM", 1, {4, 5}, FALSE), RegList("LDM", 1, {1, 4}, FALSE),
      [RegList("LDM", 1, {4, PC}, FALSE) EXCEPT !.thumb32 = TRUE],
      DPI("MOV_imm", 0, 0, U32(1), FALSE), DPI("MOV_imm", 0, 0, U32(2), TRUE),
      DP("MVN_reg", 4, 0, 3, TRUE),
      [DPI("MVN_imm", 4, 0, U32(1), TRUE) EXCEPT !.thumb32 = TRUE],
      [Ins("B") EXCEPT !.cond = AL, !.imm32 = U32(16)],
      [Ins("B") EXCEPT !.cond = EQ, !.imm32 = <<Half - 1, Half - 4>>],
      DPI("CMP_imm", 0, 4, U32(170), FALSE), DP("CMP_reg", 0, 4, 5, FALSE),
      DP("CMN_reg", 0, 3, 6, FALSE),
      RegList("PUSH", 0, {4, 5, LR}, FALSE), RegList("POP", 0, {4, 5, PC}, FALSE),
      RegList("POP", 0, {4, 5}, FALSE),
      LSX("LDR_imm", 4, 1, U32(4), TRUE, TRUE, FALSE),
      LSX("LDR_imm", 4, 1, U32(4), FALSE, FALSE, TRUE),
      LSX("LDR_imm", PC, 1, W0, TRUE, TRUE, FALSE),
      LSX("LDR_imm", 4, 1, U32(2), TRUE, TRUE, TRUE),
      LSR3("LDR_reg", 4, 1, 0), LSR3("LDR_reg", PC, 1, 0),
      LSI("LDRB_imm", 4, 1, U32(1)), LSR3("LDRB_reg", 4, 1, 0),
      LSI("LDRH_imm", 4, 1, U32(2)), LSR3("LDRH_reg", 4, 1, 0),
      LSR3("LDRSH_reg", 4, 1, 0), LSR3("LDRSB_reg", 4, 1, 0),
      DP("SBC_reg", 4, 4, 5, TRUE),
      RegList("STM", 1, {4, 5}, TRUE),
      LSX("STR_imm", 4, 1, U32(4), TRUE, TRUE, TRUE),
      LSX("STR_imm", 4, 1, U32(2), TRUE, TRUE, TRUE),
      LSR3("STR_reg", 4, 1, 6), LSR3("STRB_reg", 3, 1, 6),
      LSI("STRB_imm", 3, 1, U32(1)), LSI("STRH_imm", 3, 1, U32(2)),
      LSR3("STRH_reg", 3, 1, 6),
      LSI("LDR_lit", 4, 0, U32(4)), LSI("LDR_lit", PC, 0, U32(4)),
      DP("ADD_reg", 4, 3, 6, TRUE), DP("ADD_reg", PC, PC, 2, FALSE),
      DPI("ADD_imm", 4, 3, U32(1), TRUE), DPI("ADR", 4, 0, U32(8), FALSE),
      DPI("RSB_imm", 4, 4, W0, TRUE), DPI("SUB_imm", 4, 4, U32(170), TRUE),
      DP("SUB_reg", 4, 4, 5, TRUE),
      [Ins32("TBB") EXCEPT !.rn = PC, !.rm = 0],
      DP("TST_reg", 0, 3, 4, FALSE),
      DP("UXTB", 4, 0, 3, FALSE), DP("UXTH", 4, 0, 3, FALSE),
      DP("SXTB", 4, 0, 4, FALSE), DP("SXTH", 4, 0, 3, FALSE),
      DP("REV", 4, 0, 1, FALSE), DP("REV16", 4, 0, 1, FALSE),
      DP("REVSH", 4, 0, 4, FALSE), DP("ROR_reg", 4, 1, 6, TRUE),
      Ins("SVC"), Ins("SEV"), Ins("WFE"), Ins("WFI"), Ins("YIELD"),
      Ins32("MCR"), Ins32("MCR2"), Ins32("LDC_imm"), Ins32("LDC2_imm"),
      Ins32("UDIV"), Ins32("UMLAL"), Ins32("SMLAL"),
      Ins("UDF") }

EmptyMem == [a \in {} |-> 0]

\* a jump table at 0x104, a literal at 0x108, two words at 0x2000_0100
Mem0 ==
    write32(write32(write32(write32(EmptyMem, U32(260), U32(4)),
                            U32(264), U32(513)),
                    <<8192, 256>>, U32(769)),
            <<8192, 260>>, <<8192, 512>>)

Core0(z) ==
    [r |-> [k \in 0..12 |->
              CASE k = 1 -> <<8192, 256>>
                [] k = 2 -> <<8192, 257>>
                [] k = 3 -> WMax
                [] k = 4 -> U32(170)
                [] k = 5 -> U32(187)
                [] k = 6 -> U32(8)
                [] OTHER -> W0],
     msp |-> <<8192, 4096>>, psp |-> <<8192, 8192>>, lr |-> U32(4101),
     pc |-> U32(256), spsel |-> FALSE,
     n |-> FALSE, z |-> z, c |-> FALSE, v |-> FALSE,
     primask |-> FALSE, itstate |-> 0, tbit |-> TRUE, ipsr |-> 0]

\* a stack pointer at the bottom of memory, a base at its top, an even LR
Core1(z) ==
    [Core0(z) EXCEPT !.r[1] = <<Half - 1, Half - 4>>, !.r[2] = <<8192, 258>>,
                     !.msp = U32(4), !.lr = U32(512)]

Cores == {Core0(z) : z \in BOOLEAN} \cup {Core1(z) : z \in BOOLEAN}

NoTrace == [core |-> Core0(FALSE), mem |-> EmptyMem, program |-> <<>>, trace |-> <<>>]

InitWith(c, m, oc, ph, sv) ==
    /\ core = c
    /\ mem = m
    /\ result = Taken(0)
    /\ instr = Ins("NOP")
    /\ pre = c
    /\ premem = m
    /\ pcw = {}
    /\ semihost_calls = NoCalls
    /\ overflow_checks = oc
    /\ phase = ph
    /\ steps = 0
    /\ saved = sv

Init == \E c \in Cores, oc \in BOOLEAN : InitWith(c, Mem0, oc, "fetch", NoTrace)

\* one call of execute
Call(i, resp, ph) ==
    LET out == execute(core, mem, i, overflow_checks, resp)
    IN  /\ core' = out.core
        /\ mem' = out.mem
        /\ result' = out.result
        /\ instr' = i
        /\ pre' = core
        /\ premem' = mem
        /\ pcw' = out.pcw
        /\ semihost_calls' = out.semihost
        /\ phase' = ph
        /\ steps' = steps + 1
        /\ UNCHANGED overflow_checks

Execute ==
    /\ phase = "fetch"
    /\ steps < MaxSteps
    /\ \E i \in Instrs, resp \in Responses : Call(i, resp, "executed")
    /\ UNCHANGED saved

\* the driver after a call that returned
Retire ==
    /\ phase = "executed"
    /\ result.kind # "Panic"
    /\ core' = retire(core, instr, result)
    /\ phase' = "fetch"
    /\ UNCHANGED <<mem, result, instr, pre, premem, pcw, semihost_calls,
                   overflow_checks, steps, saved>>

Next == Execute \/ Retire

Spec == Init /\ [][Next]_vars

-----------------------------------------------------------------------------
(* a store of a register set, the registers overwritten, the matching load  *)

\* what the overwritten registers are overwritten with
Junk == {W0, U32(57005)}

StackPrograms ==
    {<<RegList("PUSH", 0, S, FALSE), RegList("POP", 0, S, FALSE)>> :
        S \in {{4, 5}, {0}, {0, 4, 7, LR}}}
    \cup
    {<<RegList("PUSH", 0, R \cup {LR}, FALSE), RegList("POP", 0, R \cup {PC}, FALSE)>> :
        R \in {{4, 5}, {}, {0, 7}}}

StmPrograms ==
    {<<RegList("STM", 1, S, w), RegList("LDM", 1, S, FALSE)>> :
        S \in {{4, 5}, {1, 4}, {0, 1, 2}, {4, LR}}, w \in BOOLEAN}

Programs == StackPrograms \cup StmPrograms

Scenario(c, m, prog) == [core |-> c, mem |-> m, program |-> prog, trace |-> <<>>]

RtInit ==
    \E c \in {Core0(FALSE), Core1(FALSE)}, oc \in BOOLEAN, prog \in Programs :
        InitWith(c, Mem0, oc, "start", Scenario(c, Mem0, prog))

RtFirst ==
    /\ phase = "start"
    /\ Call(saved.program[1], W0, "first")
    /\ UNCHANGED saved

\* the registers of the two lists, PC apart
Clobbered(prog) == (prog[1].registers \cup prog[2].registers) \ {PC}

RECURSIVE overwrite(_, _, _)
overwrite(c, regs, j) ==
    IF regs = <<>> THEN c ELSE overwrite(set_r(c, Head(regs), j), Tail(regs), j)

\* STM's base register holds the base again before the LDM
rebase(c, prog) ==
    IF prog[1].op = "STM" THEN set_r(c, prog[1].rn, get_r(saved.core, prog[1].rn)) ELSE c

RtClobber ==
    /\ phase = "first"
    /\ result.kind # "Panic"
    /\ \E j \in Junk :
          core' = rebase(overwrite(core, iter(Clobbered(saved.program)), j), saved.program)
    /\ phase' = "clobbered"
    /\ UNCHANGED <<mem, result, instr, pre, premem, pcw, semihost_calls,
                   overflow_checks, steps, saved>>

RtSecond ==
    /\ phase = "clobbered"
    /\ Call(saved.program[2], W0, "second")
    /\ UNCHANGED saved

RtNext == RtFirst \/ RtClobber \/ RtSecond

SpecRoundTrip == RtInit /\ [][RtNext]_vars

-----------------------------------------------------------------------------
(* an IT instruction and the instructions after it, the driver between them *)

MaxItSteps == 3

ItInstrs ==
    { ITins(EQ, 8), ITins(EQ, 12), ITins(NE, 8),
      DPI("MOV_imm", 0, 0, U32(1), FALSE), DPI("MOV_imm", 0, 0, U32(2), FALSE),
      DPI("CMP_imm", 0, 0, W0, FALSE), Ins("NOP"), [Ins("CPS") EXCEPT !.im = "ID"],
      [Ins("B") EXCEPT !.cond = AL, !.imm32 = U32(16)],
      [Ins("BX") EXCEPT !.rm = LR] }

ItInit ==
    \E z \in BOOLEAN, oc \in BOOLEAN :
        InitWith(Core0(z), Mem0, oc, "fetch", Scenario(Core0(z), Mem0, <<>>))

ItExecute ==
    /\ phase = "fetch"
    /\ steps < MaxItSteps
    /\ \E i \in ItInstrs :
          /\ Call(i, W0, "executed")
          /\ saved' = [saved EXCEPT !.trace = Append(saved.trace, i)]

ItNext == ItExecute \/ Retire

SpecIT == ItInit /\ [][ItNext]_vars

-----------------------------------------------------------------------------
(* the contract of execute, stated over the calls of Spec                   *)

\* C1: whenever the condition check fails for the IT-state and flags a call
\* starts with, the call returns NotTaken and leaves every register, flag,
\* PRIMASK, the IT-state, PC and every memory location as they were, whatever
\* the instruction variant (CPS, CBZ/CBNZ, IT, BKPT and NOP included).
C1_ConditionFailedFrame ==
    (phase = "executed" /\ ~condition_passed(pre))
        => (result = NotTaken /\ core = pre /\ mem = premem)

\* C2: a call with Instruction::UDF returns Fault to its caller and has
\* changed no register, flag or memory location; it does not abort.
C2_UdfReturnsFault ==
    (phase = "executed" /\ instr.op = "UDF")
        => (result = Fault /\ core = pre /\ mem = premem)

StubOps == {"UDIV", "UMLAL", "SMLAL", "MCR", "MCR2", "LDC_imm", "LDC2_imm",
            "ORR_imm", "MVN_imm"}

is_stub(i) == i.op \in StubOps \/ (i.op = "MOV_reg" /\ i.rd = PC)

\* C3: every call returns one of NotTaken, Taken, Branched and Fault, and a
\* call with one of the unimplemented encodings returns Fault.
C3_ExecuteTotal ==
    phase = "executed"
        => /\ result.kind \in {"NotTaken", "Taken", "Branched", "Fault"}
           /\ is_stub(instr) => result = Fault

\* the word a POP loads into PC: the last of the list
pop_target(c, m, i) ==
    read32(m, u32_add(get_r(c, SP), U32(4 * (Cardinality(i.registers) - 1))))

word_address(c, i) ==
    IF i.op \in {"LDR_imm", "STR_imm"}
    THEN (IF i.index THEN offset_address(c, i) ELSE get_r(c, i.rn))
    ELSE u32_add(get_r(c, i.rn), get_r(c, i.rm))

\* an unaligned word access, or a branch to ARM state
precondition_violated(c, m, i) ==
    \/ i.op \in {"LDR_imm", "STR_imm", "LDR_reg", "STR_reg"} /\ ~aligned(word_address(c, i), 4)
    \/ i.op \in {"BX", "BLX"} /\ Bit(get_r(c, i.rm), 0) = 0
    \/ i.op = "POP" /\ PC \in i.registers /\ Bit(pop_target(c, m, i), 0) = 0

\* C4: a call that meets an unaligned word load or store, or a BX, BLX or
\* POP-to-PC whose target has bit 0 clear, returns Fault and has written no
\* register, flag or memory location.
C4_FaultNoPartialUpdate ==
    (phase = "executed" /\ condition_passed(pre) /\ precondition_violated(pre, premem, instr))
        => (result = Fault /\ core = pre /\ mem = premem)

\* C9: every write of PC a call makes goes through branch_write_pc,
\* bx_write_pc or load_write_pc, never through set_r or another routine.
C9_PcWrittenByContract ==
    phase = "executed" => pcw \subseteq {"branch_write_pc", "bx_write_pc", "load_write_pc"}

\* C10: PC is even in every state the calls reach from an even PC, whatever
\* the instructions load or move into it.
C10_PcEven == result.kind # "Panic" => core.pc[2] % 2 = 0

-----------------------------------------------------------------------------
(* the round trips, stated over SpecRoundTrip                               *)

Completed == result.kind \in {"Taken", "Branched"}

restored(r) == get_r(core, r) = get_r(saved.core, r)

IsPushPop(prog) ==
    /\ prog[1].op = "PUSH" /\ prog[2].op = "POP"
    /\ prog[1].registers = prog[2].registers
    /\ prog[1].registers \cap {SP, PC} = {}

\* C5: PUSH S, the registers of S overwritten, POP S: both calls complete and
\* every register of S and SP hold what they held before the PUSH, for every
\* S without SP and PC and every SP.
C5_PushPopRoundTrip ==
    IsPushPop(saved.program)
        => /\ phase \in {"first", "second"} => Completed
           /\ phase = "second" => \A r \in saved.program[1].registers \cup {SP} : restored(r)

IsPushLrPopPc(prog) ==
    /\ prog[1].op = "PUSH" /\ prog[2].op = "POP"
    /\ LR \in prog[1].registers /\ PC \in prog[2].registers
    /\ prog[1].registers \ {LR} = prog[2].registers \ {PC}
    /\ prog[1].registers \ {LR} \subseteq 0..7

clear_bit0(w) == <<w[1], w[2] - (w[2] % 2)>>

\* C6: PUSH R+{LR}, those registers overwritten, POP R+{PC}: every register of
\* R and SP are restored, PC is the pushed LR with bit 0 cleared, written by
\* bx_write_pc, and the POP returns Branched.
C6_PushLrPopPc ==
    IsPushLrPopPc(saved.program)
        => /\ phase = "first" => Completed
           /\ phase = "second"
                => /\ result.kind = "Branched"
                   /\ \A r \in (saved.program[1].registers \ {LR}) \cup {SP} : restored(r)
                   /\ core.pc = clear_bit0(saved.core.lr)
                   /\ pcw = {"bx_write_pc"}

IsStmLdm(prog) ==
    /\ prog[1].op = "STM" /\ prog[2].op = "LDM"
    /\ prog[1].registers = prog[2].registers
    /\ prog[1].rn = prog[2].rn

\* C7: STM of S at base b, the registers of S overwritten, LDM of S with the
\* base register holding b again: both calls complete and every register of S
\* holds what it held before the STM, the base register in S or not.
C7_StmLdmRoundTrip ==
    IsStmLdm(saved.program)
        => /\ phase \in {"first", "second"} => Completed
           /\ phase = "second" => \A r \in saved.program[1].registers : restored(r)

\* where the address arithmetic wraps, all three round trips hold
RoundTripWhenWrapping ==
    ~overflow_checks => C5_PushPopRoundTrip /\ C6_PushLrPopPc /\ C7_StmLdmRoundTrip

-----------------------------------------------------------------------------
(* the IT block, stated over SpecIT                                         *)

MOV1 == DPI("MOV_imm", 0, 0, U32(1), FALSE)
MOV2 == DPI("MOV_imm", 0, 0, U32(2), FALSE)

AfterItEq == Len(saved.trace) = 2 /\ saved.trace[1] = ITins(EQ, 8)

\* C8: after IT EQ over one instruction the next call is Taken or Branched
\* when Z = 1 and NotTaken when Z = 0, and the IT-state is inactive before the
\* call after it; ITE EQ, MOV r0,#1, MOV r0,#2 from Z = 1 ends with r0 = 1 and
\* the IT-state cleared.
C8_ItBlock ==
    /\ (AfterItEq /\ phase = "executed")
          => IF saved.core.z THEN Completed ELSE result = NotTaken
    /\ (AfterItEq /\ phase = "fetch") => core.itstate % 16 = 0
    /\ (saved.trace = <<ITins(EQ, 12), MOV1, MOV2>> /\ saved.core.z /\ phase = "fetch")
          => (get_r(core, 0) = U32(1) /\ core.itstate = 0)

\* the instructions whose arm asks condition_passed
Conditional == {MOV1, MOV2, DPI("CMP_imm", 0, 0, W0, FALSE), [Ins("BX") EXCEPT !.rm = LR]}

\* with such instructions in the block, the block behaves as stated
ItBlockOfConditional ==
    (\A k \in 2..Len(saved.trace) : saved.trace[k] \in Conditional) => C8_ItBlock

-----------------------------------------------------------------------------
(* one call from a state inside or outside an IT block, then the driver     *)

\* IT-states to start from: none, EQ over one instruction, NE then EQ
ItStates == {0, 8, 20}

CallInit ==
    \E c \in Cores, its \in ItStates, oc \in BOOLEAN :
        InitWith(set_itstate(c, its), Mem0, oc, "fetch", NoTrace)

CallOnce ==
    /\ phase = "fetch"
    /\ steps = 0
    /\ \E i \in Instrs, resp \in Responses : Call(i, resp, "executed")
    /\ UNCHANGED saved

CallNext == CallOnce \/ Retire

SpecCall == CallInit /\ [][CallNext]_vars

\* PC is where the instruction puts a result
pc_destination(i) ==
    i.rd = PC \/ i.rt = PC \/ PC \in i.registers \/ (i.wback /\ i.rn = PC)

-----------------------------------------------------------------------------
(* the arithmetic arms, over operands at and around the ends of the range   *)

Operands ==
    { W0, U32(1), U32(2), U32(Half - 1), <<1, 0>>, <<(Half \div 2) - 1, Half - 1>>,
      <<Half \div 2, 0>>, <<Half \div 2, 1>>, <<Half - 1, Half - 2>>, WMax }

\* r0 = x, r1 = y, any flags
AluCore(x, y, f) ==
    [Core0(f[2]) EXCEPT !.r[0] = x, !.r[1] = y, !.n = f[1], !.c = f[3], !.v = f[4]]

AluInstrs ==
    { DP("CMP_reg", 0, 0, 1, FALSE), DP("SUB_reg", 2, 0, 1, TRUE),
      DP("SUB_reg", 2, 0, 1, FALSE), DP("ADD_reg", 2, 0, 1, TRUE),
      DP("ADD_reg", 2, 0, 1, FALSE), DP("ADD_reg", 0, 0, 1, TRUE),
      DP("CMN_reg", 0, 0, 1, FALSE), DP("ADC_reg", 2, 0, 1, TRUE),
      DP("SBC_reg", 2, 0, 1, TRUE) }
    \cup {DPI("CMP_imm", 0, 0, y, FALSE) : y \in Operands}
    \cup {DPI("SUB_imm", 2, 0, y, TRUE) : y \in Operands}
    \cup {DPI("ADD_imm", 2, 0, y, TRUE) : y \in Operands}
    \cup {DPI("RSB_imm", 2, 0, y, TRUE) : y \in {W0}}

AluInit ==
    \E x \in Operands, y \in Operands, f \in {<<FALSE, FALSE, FALSE, FALSE>>,
                                              <<TRUE, FALSE, TRUE, TRUE>>,
                                              <<FALSE, TRUE, TRUE, FALSE>>} :
        InitWith(AluCore(x, y, f), Mem0, TRUE, "fetch", NoTrace)

AluExecute ==
    /\ phase = "fetch"
    /\ steps = 0
    /\ \E i \in AluInstrs : Call(i, W0, "executed")
    /\ UNCHANGED saved

AluNext == AluExecute \/ Retire

SpecAlu == AluInit /\ [][AluNext]_vars

flags(c) == <<c.n, c.z, c.c, c.v>>

\* the SUBS with the operands of a CMP, into register t
subs_of(i, t) ==
    IF i.op = "CMP_imm" THEN DPI("SUB_imm", t, i.rn, i.imm32, TRUE)
    ELSE DP("SUB_reg", t, i.rn, i.rm, TRUE)

\* C12: CMP_imm and CMP_reg leave N, Z, C and V as SUB_imm and SUB_reg with
\* setflags do from the same state, whatever register the difference goes to,
\* and change nothing but the flags.
C12_CmpAsSubs ==
    (phase = "executed" /\ instr.op \in {"CMP_imm", "CMP_reg"})
        => /\ \A t \in 0..7 :
                flags(core) = flags(execute(pre, premem, subs_of(instr, t),
                                            overflow_checks, W0).core)
           /\ core = [pre EXCEPT !.n = core.n, !.z = core.z, !.c = core.c, !.v = core.v]
           /\ mem = premem

\* a CMP of a smaller with a larger number: a borrow, C clear, N set
C12_Witness ==
    /\ phase = "executed" /\ instr.op = "CMP_imm"
    /\ pre.r[0] = U32(1) /\ instr.imm32 = U32(2)
    /\ flags(core) = <<TRUE, FALSE, FALSE, FALSE>>
    /\ flags(pre) # flags(core)

\* the second operand of an arithmetic instruction
operand2(c, i) == IF i.op \in {"ADD_imm", "SUB_imm", "CMP_imm"} THEN i.imm32 ELSE get_r(c, i.rm)

\* the upper half of a word read as a signed number
signed_hi(w) == IF IsNeg(w) THEN w[1] - Half ELSE w[1]

\* the signed sum of two words and a carry-in does not fit 32 bits
signed_sum_overflows(x, y, cin) ==
    LET hi == signed_hi(x) + signed_hi(y) + ((x[2] + y[2] + cin) \div Half)
    IN  hi < -(Half \div 2) \/ hi > (Half \div 2) - 1

\* C13: ADD_reg (rd not PC) and ADD_imm with setflags write rd = x + y modulo
\* 2^32, N = bit 31 of the sum, Z = the sum is 0, C = the carry out of the
\* unsigned sum, V = the signed sum overflows; adding 0 gives Z iff Rn = 0,
\* N iff Rn is negative, C = 0 and V = 0.
C13_AddFlags ==
    (phase = "executed" /\ instr.op \in {"ADD_reg", "ADD_imm"} /\ instr.setflags
        /\ instr.rd # PC)
        => LET x   == get_r(pre, instr.rn)
               y   == operand2(pre, instr)
               sum == u32_add(x, y)
           IN  /\ result.kind = "Taken"
               /\ get_r(core, instr.rd) = sum
               /\ core.n = (Bit(sum, 31) = 1)
               /\ core.z = (sum = W0)
               /\ core.c = u32_add_overflows(x, y)
               /\ core.v = signed_sum_overflows(x, y, 0)
               /\ y = W0 => /\ core.z = (x = W0)
                            /\ core.n = IsNeg(x)
                            /\ ~core.c /\ ~core.v

\* ADDS of 0xFFFF_FFFF and 1: 0 with N = 0, Z = 1, C = 1, V = 0
C13_Witness ==
    /\ phase = "executed" /\ instr.op = "ADD_reg" /\ instr.setflags /\ instr.rd = 2
    /\ pre.r[0] = WMax /\ pre.r[1] = U32(1)
    /\ core.r[2] = W0 /\ flags(core) = <<FALSE, TRUE, TRUE, FALSE>>

\* x >= y, both read as unsigned numbers
u32_ge(x, y) == x[1] > y[1] \/ (x[1] = y[1] /\ x[2] >= y[2])

\* C14: SUB_imm, SUB_reg and the CMPs, which subtract by
\* add_with_carry(x, y XOR 0xFFFF_FFFF, 1), yield x - y modulo 2^32 and a
\* carry that is the borrow negated: C = 1 exactly when x >= y unsigned.
C14_SubBorrow ==
    (phase = "executed" /\ instr.op \in {"SUB_imm", "SUB_reg", "CMP_imm", "CMP_reg"})
        => LET x == get_r(pre, instr.rn)
               y == operand2(pre, instr)
               a == add_with_carry(x, u32_xor(y, WMax), TRUE)
           IN  /\ a.result = u32_sub(x, y)
               /\ a.carry = u32_ge(x, y)
               /\ instr.op \in {"SUB_imm", "SUB_reg"} => get_r(core, instr.rd) = u32_sub(x, y)
               /\ (instr.setflags \/ instr.op \in {"CMP_imm", "CMP_reg"})
                    => /\ core.c = u32_ge(x, y)
                       /\ core.z = (x = y)
                       /\ core.n = (Bit(u32_sub(x, y), 31) = 1)

\* 1 - 2: the difference wraps to 0xFFFF_FFFF and the borrow clears C
C14_Witness ==
    /\ phase = "executed" /\ instr.op = "SUB_imm" /\ instr.setflags
    /\ pre.r[0] = U32(1) /\ instr.imm32 = U32(2)
    /\ core.r[2] = WMax /\ ~core.c /\ pre.c

-----------------------------------------------------------------------------
(* decoder/tbb.rs *)

\* Reg::from of a register number
reg_from(w) == w[2]

decode_TBB_t1(opcode) ==
    [Ins32("TBB") EXCEPT !.rn = reg_from(bitfield_get_bits(opcode, 16, 20)),
                         !.rm = reg_from(bitfield_get_bits(opcode, 0, 4))]

-----------------------------------------------------------------------------
(* BL and TBB, from addresses low and high in memory                        *)

\* TBB [pc, r0], TBB [r1, r0], TBB [r0, r1], TBB [pc, r1]
TbbOpcodes == {<<59615, 61440>>, <<59601, 61440>>, <<59600, 61441>>, <<59615, 61441>>}

\* +0x40, 0, -0x40, -0x1000
BlOffsets == {U32(64), W0, <<Half - 1, Half - 64>>, <<Half - 1, Half - 4096>>}

\* 0x100, 0x1000, 0x7FFF_FFF0, 0xFFFF_FFF0, 0xFFFF_FFFC
BranchAddresses ==
    { U32(256), U32(4096), <<(Half \div 2) - 1, Half - 16>>, <<Half - 1, Half - 16>>,
      <<Half - 1, Half - 4>> }

\* the jump table of Mem0 with a large entry after the first, and one at 0x1004
BranchMem == write8(write8(Mem0, U32(261), 255), U32(4100), 16)

BranchCore(a, x) == [Core1(FALSE) EXCEPT !.pc = a, !.r[0] = x]

BranchInit ==
    \E a \in BranchAddresses, x \in {W0, U32(1), U32(8)}, oc \in BOOLEAN :
        InitWith(BranchCore(a, x), BranchMem, oc, "fetch", NoTrace)

BlStep ==
    /\ phase = "fetch"
    /\ steps = 0
    /\ \E imm \in BlOffsets : Call([Ins32("BL") EXCEPT !.imm32 = imm], W0, "executed")
    /\ UNCHANGED saved

TbbStep ==
    /\ phase = "fetch"
    /\ steps = 0
    /\ \E opcode \in TbbOpcodes :
          /\ Call(decode_TBB_t1(opcode), W0, "executed")
          /\ saved' = [saved EXCEPT !.trace = <<opcode>>]

BlxStep ==
    /\ phase = "fetch"
    /\ steps = 0
    /\ \E rm \in {0, 2, LR} : Call([Ins("BLX") EXCEPT !.rm = rm], W0, "executed")
    /\ UNCHANGED saved

BranchNext == BlStep \/ TbbStep \/ BlxStep \/ Retire

SpecBranch == BranchInit /\ [][BranchNext]_vars

set_bit0(w) == <<w[1], w[2] - (w[2] % 2) + 1>>

\* C15: after a BL at address A with offset imm32, LR is A + 4 with bit 0
\* set, PC is A + 4 + imm32 and the result is Branched.
C15_BlLinksAndBranches ==
    (phase = "executed" /\ instr.op = "BL")
        => /\ result.kind = "Branched"
           /\ core.lr = set_bit0(u32_add(pre.pc, U32(4)))
           /\ core.pc = u32_add(u32_add(pre.pc, U32(4)), instr.imm32)

\* where the arithmetic wraps, BL does as stated from every address
BlWhenWrapping == ~overflow_checks => C15_BlLinksAndBranches

\* C16: a TBB [rn, rm] at address A reads the byte b at rn + rm and sets
\* PC = A + 4 + 2 * b, returning Branched; rn is bits 16..20 and rm bits 0..4
\* of the opcode.
C16_TbbBranches ==
    (phase = "executed" /\ instr.op = "TBB")
        => LET b == read8(premem, u32_add(get_r(pre, instr.rn), get_r(pre, instr.rm)))
               opcode == saved.trace[1]
           IN  /\ result.kind = "Branched"
               /\ core.pc = u32_add(u32_add(pre.pc, U32(4)), U32(2 * b))
               /\ instr.rn = (opcode[1] % 16)
               /\ instr.rm = (opcode[2] % 16)

\* where the arithmetic wraps, TBB does as stated from every address
TbbWhenWrapping == ~overflow_checks => C16_TbbBranches

\* the BL of the spec's scenario: 0x1000, +0x40
BlScenario ==
    /\ phase = "executed" /\ instr.op = "BL" /\ pre.pc = U32(4096) /\ instr.imm32 = U32(64)
    /\ core.pc = U32(4164) /\ core.lr = U32(4101)

\* the TBB of the spec's scenario: 0x100, [pc, r0], r0 = 0, byte 4 at 0x104
TbbScenario ==
    /\ phase = "executed" /\ instr.op = "TBB" /\ pre.pc = U32(256)
    /\ instr.rn = PC /\ instr.rm = 0 /\ pre.r[0] = W0
    /\ core.pc = U32(268)

-----------------------------------------------------------------------------
(* core/exception.rs *)

\* the entries of Exception other than Interrupt, in the order of their numbers
ExceptionNames ==
    << "Reset", "NMI", "HardFault", "MemoryManagementFault", "BusFault", "UsageFault",
       "Reserved4", "Reserved5", "Reserved6", "DebugMonitor", "SVCall", "Reserved8",
       "Reserved9", "PendSV", "SysTick" >>

Named(k) == [tag |-> ExceptionNames[k], n |-> 0, wrapped |-> FALSE]

Interrupt(n, wrapped) == [tag |-> "Interrupt", n |-> n, wrapped |-> wrapped]

ConversionPanic == [tag |-> "Panic", n |-> 0, wrapped |-> TRUE]

\* impl From<u8> for Exception; the last arm is value - 16 on u8
exception_from_u8(value, oc) ==
    IF value \in 1..Len(ExceptionNames) THEN Named(value)
    ELSE IF value - 16 >= 0 THEN Interrupt(value - 16, FALSE)
    ELSE IF oc THEN ConversionPanic
    ELSE Interrupt((value - 16) % 256, TRUE)

\* impl From<Exception> for u8; the last arm is 16 + n on u8
u8_from_exception(e, oc) ==
    IF e.tag = "Interrupt"
    THEN (IF 16 + e.n <= 255 THEN [ok |-> TRUE, value |-> 16 + e.n, wrapped |-> FALSE]
          ELSE IF oc THEN [ok |-> FALSE, value |-> 0, wrapped |-> TRUE]
          ELSE [ok |-> TRUE, value |-> (16 + e.n) % 256, wrapped |-> TRUE])
    ELSE [ok |-> TRUE,
          value |-> CHOOSE k \in 1..Len(ExceptionNames) : ExceptionNames[k] = e.tag,
          wrapped |-> FALSE]

\* a number, Exception::from of it, u8::from of that
ExcInit ==
    \E n \in 0..255, oc \in BOOLEAN :
        InitWith(Core0(FALSE), EmptyMem, oc, "number",
                 [core |-> Core0(FALSE), mem |-> EmptyMem, program |-> <<n>>, trace |-> <<>>])

ExcDecode ==
    /\ phase = "number"
    /\ saved' = [saved EXCEPT !.trace = <<exception_from_u8(saved.program[1], overflow_checks)>>]
    /\ phase' = "decoded"
    /\ UNCHANGED <<core, mem, result, instr, pre, premem, pcw, semihost_calls,
                   overflow_checks, steps>>

ExcEncode ==
    /\ phase = "decoded"
    /\ saved.trace[1].tag # "Panic"
    /\ saved' = [saved EXCEPT !.trace = Append(saved.trace,
                                  u8_from_exception(saved.trace[1], overflow_checks))]
    /\ phase' = "encoded"
    /\ UNCHANGED <<core, mem, result, instr, pre, premem, pcw, semihost_calls,
                   overflow_checks, steps>>

\* an Exception value: an entry of the table, or Interrupt {n} with the number
\* of this behaviour as n; u8::from of it
ExcEncodeValue ==
    /\ phase = "number"
    /\ \E e \in {Named(k) : k \in 1..Len(ExceptionNames)}
                 \cup {Interrupt(saved.program[1], FALSE)} :
          saved' = [saved EXCEPT !.trace = <<e, u8_from_exception(e, overflow_checks)>>]
    /\ phase' = "value_encoded"
    /\ UNCHANGED <<core, mem, result, instr, pre, premem, pcw, semihost_calls,
                   overflow_checks, steps>>

\* Exception::from of the number u8::from gave
ExcDecodeBack ==
    /\ phase = "value_encoded"
    /\ saved.trace[2].ok
    /\ saved' = [saved EXCEPT !.trace = Append(saved.trace,
                                  exception_from_u8(saved.trace[2].value, overflow_checks))]
    /\ phase' = "decoded_back"
    /\ UNCHANGED <<core, mem, result, instr, pre, premem, pcw, semihost_calls,
                   overflow_checks, steps>>

ExcNext == ExcDecode \/ ExcEncode \/ ExcEncodeValue \/ ExcDecodeBack

SpecException == ExcInit /\ [][ExcNext]_vars

\* C17: for every n in 0..255, Exception::from(n) and u8::from of the result
\* are both defined, without underflow or overflow, and give n again.
C17_ExceptionRoundTrip ==
    /\ phase = "decoded" => saved.trace[1].tag # "Panic" /\ ~saved.trace[1].wrapped
    /\ phase = "encoded" => /\ saved.trace[2].ok /\ ~saved.trace[2].wrapped
                            /\ saved.trace[2].value = saved.program[1]

\* the round trip of the numbers the table and the interrupts cover
ExceptionRoundTripFrom1 == saved.program[1] >= 1 => C17_ExceptionRoundTrip

\* C18: Exception::from is defined on every u8: 1..15 give the entry of that
\* number, every value from 16 on gives Interrupt {n: value - 16}, and no
\* value below 16 gives an Interrupt.
C18_ExceptionDecodeTable ==
    phase = "decoded"
        => LET value == saved.program[1]
               e     == saved.trace[1]
           IN  /\ e.tag # "Panic"
               /\ value \in 1..15 => e = Named(value)
               /\ value >= 16 => e = Interrupt(value - 16, FALSE)
               /\ value < 16 => e.tag # "Interrupt"

\* decoding follows the table from 1 on
ExceptionDecodeFrom1 == saved.program[1] >= 1 => C18_ExceptionDecodeTable

-----------------------------------------------------------------------------
(* core/bits.rs: a value of width w as the set of the positions of its 1    *)
(* bits, the same for u8, u16, u32 and u64                                  *)

\* v << n and v >> n on a type of w bits, n < w
bits_shl(v, n, w) == {k + n : k \in v} \cap (0..(w - 1))

bits_shr(v, n) == {k - n : k \in {j \in v : j >= n}}

bits_not(v, w) == (0..(w - 1)) \ v

\* v - 1, v not 0
bits_dec(v) ==
    LET low == CHOOSE k \in v : \A j \in v : k <= j
    IN  (v \ {low}) \cup (0..(low - 1))

\* a shift by the width or more aborts where overflow is checked and shifts
\* by the amount modulo the width where it is not
shift_amount(n, w) == n % w

shift_aborts(n, w, oc) == oc /\ n >= w

BitsPanic == [ok |-> FALSE, bits |-> {}, wrapped |-> TRUE]

\* wrapped: a shift amount was out of range and taken modulo the width
BitsValue(v, wrapped) == [ok |-> TRUE, bits |-> v, wrapped |-> wrapped]

\* a get_bits that shifts right by range.start only
get_bits_unmasked(v, lo, hi, w, oc) == BitsValue(bits_shr(v, lo), FALSE)

\* *self << (w - range.end) >> (w - range.end), then >> range.start
get_bits(v, lo, hi, w, oc) ==
    IF shift_aborts(w - hi, w, oc) \/ shift_aborts(lo, w, oc) THEN BitsPanic
    ELSE LET n    == shift_amount(w - hi, w)
             bits == bits_shr(bits_shl(v, n, w), n)
         IN  BitsValue(bits_shr(bits, shift_amount(lo, w)), w - hi >= w \/ lo >= w)

\* mask = !(((1 << (end - start)) - 1) << start); *self &= mask;
\* *self |= value << start
set_bits(v, lo, hi, x, w, oc) ==
    IF shift_aborts(hi - lo, w, oc) \/ shift_aborts(lo, w, oc) THEN BitsPanic
    ELSE LET one   == bits_shl({0}, shift_amount(hi - lo, w), w)
             ones  == bits_dec(one)
             mask  == bits_not(bits_shl(ones, shift_amount(lo, w), w), w)
         IN  BitsValue((v \cap mask) \cup bits_shl(x, shift_amount(lo, w), w),
                       hi - lo >= w \/ lo >= w)

bits_xor(a, b) == (a \ b) \cup (b \ a)

\* a bit as a value of the width: value as Self
bits_of_bool(value) == IF value THEN {0} ELSE {}

BitsBool(b, wrapped) == [ok |-> TRUE, bit |-> b, wrapped |-> wrapped]

\* (*self & 1 << bit) == 1 << bit
get_bit(v, bit, w, oc) ==
    IF shift_aborts(bit, w, oc) THEN BitsPanic
    ELSE LET one == bits_shl({0}, shift_amount(bit, w), w)
         IN  BitsBool((v \cap one) = one, bit >= w)

\* a set_bit that only sets: the bit is never cleared
set_bit_or_only(v, bit, value, w, oc) ==
    BitsValue(v \cup bits_shl(bits_of_bool(value), shift_amount(bit, w), w), FALSE)

\* *self &= !0 ^ (1 << bit); *self |= (value as Self) << bit
set_bit(v, bit, value, w, oc) ==
    IF shift_aborts(bit, w, oc) THEN BitsPanic
    ELSE LET n    == shift_amount(bit, w)
             mask == bits_xor(bits_not({}, w), bits_shl({0}, n, w))
         IN  BitsValue((v \cap mask) \cup bits_shl(bits_of_bool(value), n, w),
                       bit >= w)

Widths == {8, 16, 32, 64}

\* zero, all ones, the ends, 0xC000, 0xFF, every other bit
BitPatterns(w) ==
    { {}, 0..(w - 1), {0}, {w - 1}, {14, 15} \cap (0..(w - 1)), 0..7,
      {k \in 0..(w - 1) : k % 2 = 1} }

\* range.start and range.end
BitPositions(w) == {0, 1, 4, 7, 8, 14, 16, w \div 2, w - 1, w} \cap (0..w)

\* width, value, range.start (also the bit index), range.end, the value to
\* set, the bit to set
BitsInit ==
    \E w \in Widths, oc \in BOOLEAN, b \in BOOLEAN :
      \E v \in BitPatterns(w), x \in BitPatterns(w),
         lo \in BitPositions(w), hi \in BitPositions(w) :
        /\ lo < hi
        /\ InitWith(Core0(FALSE), EmptyMem, oc, "bits",
                    [core |-> Core0(FALSE), mem |-> EmptyMem,
                     program |-> <<w, v, lo, hi, x, b>>, trace |-> <<>>])

BitsStep(ph, next, value) ==
    /\ phase = ph
    /\ saved' = [saved EXCEPT !.trace = Append(saved.trace, value)]
    /\ phase' = next
    /\ UNCHANGED <<core, mem, result, instr, pre, premem, pcw, semihost_calls,
                   overflow_checks, steps>>

GetBits ==
    /\ phase = "bits"
    /\ BitsStep("bits", "got",
             get_bits(saved.program[2], saved.program[3], saved.program[4],
                      saved.program[1], overflow_checks))

SetBits ==
    /\ phase = "bits"
    /\ BitsStep("bits", "set",
             set_bits(saved.program[2], saved.program[3], saved.program[4],
                      saved.program[5], saved.program[1], overflow_checks))

GetAfterSet ==
    /\ saved.trace # <<>> /\ saved.trace[1].ok
    /\ BitsStep("set", "set_got",
                get_bits(saved.trace[1].bits, saved.program[3], saved.program[4],
                         saved.program[1], overflow_checks))

SetBit ==
    /\ phase = "bits"
    /\ BitsStep("bits", "bit_set",
                set_bit(saved.program[2], saved.program[3], saved.program[6],
                        saved.program[1], overflow_checks))

GetBitAfterSet ==
    /\ saved.trace # <<>> /\ saved.trace[1].ok
    /\ BitsStep("bit_set", "bit_got",
                get_bit(saved.trace[1].bits, saved.program[3], saved.program[1],
                        overflow_checks))

BitsNext == GetBits \/ SetBits \/ GetAfterSet \/ SetBit \/ GetBitAfterSet

SpecBits == BitsInit /\ [][BitsNext]_vars

\* (v >> lo) mod 2^(hi - lo): bit k is bit k + lo of v for k < hi - lo
field(v, lo, hi) == {k \in 0..(hi - lo - 1) : k + lo \in v}

\* C19: for each width and each range lo..hi with lo < hi, the full width
\* included, get_bits(v, lo..hi) is (v >> lo) mod 2^(hi - lo): the field
\* right-aligned, no bit set at hi - lo or above.
C19_GetBitsField ==
    phase = "got"
        => /\ saved.trace[1].ok /\ ~saved.trace[1].wrapped
           /\ saved.trace[1].bits = field(saved.program[2], saved.program[3], saved.program[4])
           /\ \A k \in saved.trace[1].bits : k < saved.program[4] - saved.program[3]

\* get_bits(0xC000, 14..16) = 0b11 on u32
C19_Witness ==
    /\ phase = "got" /\ saved.program[1] = 32 /\ saved.program[2] = {14, 15}
    /\ saved.program[3] = 14 /\ saved.program[4] = 16
    /\ saved.trace[1] = BitsValue({0, 1}, FALSE)

\* get_bits(0xFFFF_FFFF, 0..32) = 0xFFFF_FFFF
GetBitsFullWidth ==
    /\ phase = "got" /\ saved.program[1] = 32 /\ saved.program[2] = 0..31
    /\ saved.program[3] = 0 /\ saved.program[4] = 32
    /\ saved.trace[1] = BitsValue(0..31, FALSE)

\* C20: for each width and each range lo..hi with lo < hi, the full width
\* included, set_bits(&mut v, lo..hi, x) is defined, no shift overflowing,
\* and get_bits(v, lo..hi) after it is x mod 2^(hi - lo).
C20_SetThenGet ==
    /\ phase = "set"
          => saved.trace[1].ok /\ ~saved.trace[1].wrapped
    /\ phase = "set_got"
          => saved.trace[2] = BitsValue(field(saved.program[5], 0,
                                              saved.program[4] - saved.program[3]), FALSE)

\* for the ranges short of the full width, set_bits then get_bits is as stated
SetThenGetPartial ==
    saved.program[4] - saved.program[3] < saved.program[1]
        => (phase \in {"set", "set_got"} => C20_SetThenGet)

\* the bits of v outside lo..hi-1 are the same in r
frame_kept(v, r, lo, hi, w) ==
    \A k \in 0..(w - 1) : (k < lo \/ k >= hi) => (k \in r <=> k \in v)

\* C21: for each width, each v, each range lo..hi and each x, an x with
\* bits at or above hi - lo included, set_bits(&mut v, lo..hi, x) puts the
\* low hi - lo bits of x in bits lo..hi-1 and keeps every bit of v below lo
\* and at or above hi.
C21_SetBitsFrame ==
    phase = "set"
        => /\ saved.trace[1].ok
           /\ frame_kept(saved.program[2], saved.trace[1].bits,
                         saved.program[3], saved.program[4], saved.program[1])
           /\ field(saved.trace[1].bits, saved.program[3], saved.program[4])
                 = field(saved.program[5], 0, saved.program[4] - saved.program[3])

\* x has no bit at hi - lo or above
fits(x, lo, hi) == \A k \in x : k < hi - lo

\* for an x that fits in the range and a range short of the full width the
\* frame is kept
SetBitsFrameWhenFits ==
    (/\ fits(saved.program[5], saved.program[3], saved.program[4])
     /\ saved.program[4] - saved.program[3] < saved.program[1])
        => C21_SetBitsFrame

\* set_bits(&mut v, 0..4, 0xFF) on v = 0 leaves 0xFF: bits 4..7 changed
SetBitsLeak ==
    /\ phase = "set" /\ saved.program[1] = 32 /\ saved.program[2] = {}
    /\ saved.program[3] = 0 /\ saved.program[4] = 4 /\ saved.program[5] = 0..7
    /\ saved.trace[1] = BitsValue(0..7, FALSE)

\* C22: for each width w, each v, each bit index i < w and each boolean b,
\* after set_bit(&mut v, i, b) get_bit(v, i) is b and every bit j # i of v
\* is unchanged.
C22_SetBitThenGet ==
    /\ phase = "bit_set"
          => /\ saved.trace[1].ok /\ ~saved.trace[1].wrapped
             /\ frame_kept(saved.program[2], saved.trace[1].bits,
                           saved.program[3], saved.program[3] + 1, saved.program[1])
    /\ phase = "bit_got"
          => saved.trace[2] = BitsBool(saved.program[6], FALSE)

\* clearing the top bit of the all-ones u64 and reading it back
C22_Witness ==
    /\ phase = "bit_got" /\ saved.program[1] = 64 /\ saved.program[2] = 0..63
    /\ saved.program[3] = 63 /\ ~saved.program[6]
    /\ saved.trace[1] = BitsValue(0..62, FALSE)
    /\ saved.trace[2] = BitsBool(FALSE, FALSE)

\* the value of a special register as MRS reads it; CONTROL has SPSEL in bit 1
special_value(c, sr) ==
    CASE sr = "IPSR"    -> U32(get_exception_number(c))
      [] sr = "MSP"     -> c.msp
      [] sr = "PSP"     -> c.psp
      [] sr = "PRIMASK" -> U32(IF c.primask THEN 1 ELSE 0)
      [] sr = "CONTROL" -> U32(IF c.spsel THEN 2 ELSE 0)

\* the call of this state is of op with its condition passed
Called(op) ==
    /\ phase = "executed" /\ steps = 1
    /\ instr.op = op /\ condition_passed(pre)

\* C23: MRS rd, spec_reg with its condition passed completes with Taken and
\* puts the value of the special register in rd, for IPSR, MSP, PSP, PRIMASK
\* and CONTROL, and changes nothing but rd.
C23_MrsReads ==
    Called("MRS")
        => /\ result.kind = "Taken"
           /\ core = set_r(pre, instr.rd, special_value(pre, instr.spec_reg))
           /\ mem = premem

\* MRS of IPSR and of PRIMASK is as stated
MrsImplemented ==
    instr.spec_reg \in {"IPSR", "PRIMASK"} => C23_MrsReads

\* MRS r4, MSP aborts
MrsMspAborts ==
    /\ Called("MRS") /\ instr.spec_reg = "MSP"
    /\ result.kind = "Panic" /\ core = pre

\* the core after MSR spec_reg, rn
msr_written(c, sr, v) ==
    CASE sr = "MSP"     -> [c EXCEPT !.msp = v]
      [] sr = "PSP"     -> [c EXCEPT !.psp = v]
      [] sr = "PRIMASK" -> [c EXCEPT !.primask = (Bit(v, 0) = 1)]
      [] sr = "CONTROL" -> [c EXCEPT !.spsel = (Bit(v, 1) = 1)]

\* C24: MSR spec_reg, rn with its condition passed completes with Taken and
\* puts rn in the special register, for MSP, PSP, PRIMASK and CONTROL;
\* PRIMASK takes bit 0 of rn only; no general register and no flag changes.
C24_MsrWrites ==
    Called("MSR_reg")
        => /\ result.kind = "Taken"
           /\ core = msr_written(pre, instr.spec_reg, get_r(pre, instr.rn))
           /\ core.r = pre.r /\ core.lr = pre.lr /\ flags(core) = flags(pre)
           /\ mem = premem

\* MSR of MSP, PSP and PRIMASK is as stated
MsrImplemented ==
    instr.spec_reg \in {"MSP", "PSP", "PRIMASK"} => C24_MsrWrites

\* MSR PRIMASK, r2 with r2 = 0x2000_0101 sets PRIMASK
MsrPrimaskSet ==
    /\ Called("MSR_reg") /\ instr.spec_reg = "PRIMASK"
    /\ result.kind = "Taken" /\ core.primask /\ ~pre.primask

\* MSR CONTROL, r1 aborts
MsrControlAborts ==
    /\ Called("MSR_reg") /\ instr.spec_reg = "CONTROL"
    /\ result.kind = "Panic" /\ core = pre

\* the call of this state is of BKPT with the immediate 0xAB
SemihostingBkpt == instr.op = "BKPT" /\ instr.imm32 = U32(171)

\* C25: BKPT with an immediate other than 0xAB raises DebugMonitor or halts:
\* it does not complete as a Taken instruction without any effect.
C25_BkptOtherImmediate ==
    (phase = "executed" /\ steps = 1 /\ instr.op = "BKPT" /\ ~SemihostingBkpt)
        => ~(result.kind = "Taken" /\ core = pre /\ mem = premem)

\* BKPT #0 returns Taken with nothing changed and nothing called
BkptIgnored ==
    /\ phase = "executed" /\ steps = 1 /\ instr.op = "BKPT" /\ instr.imm32 = W0
    /\ result = Taken(1) /\ core = pre /\ mem = premem /\ semihost_calls = NoCalls

\* C26: BKPT #0xAB calls semihost_func once inside the execute call, with
\* the command decoded from r0 and r1 as they were at entry; the answer is
\* written back before execute returns, and execute returns Taken, not
\* Fault, whatever the answer; no other instruction or immediate makes a call.
C26_SemihostingCall ==
    steps = 1
        => IF SemihostingBkpt
           THEN /\ Len(semihost_calls) = 1
                /\ semihost_calls[1].cmd = decode_semihostcmd(get_r(pre, 0), get_r(pre, 1))
                /\ semihost_calls[1].response \in Responses
                /\ result.kind = "Taken"
                /\ phase = "executed"
                     => /\ core = semihost_return(pre, semihost_calls[1].response)
                        /\ mem = premem
           ELSE semihost_calls = NoCalls

\* BKPT #0xAB answered with the error response 0xFFFF_FFFF
C26_Witness ==
    /\ phase = "executed" /\ steps = 1 /\ SemihostingBkpt
    /\ semihost_calls = SemihostCall(decode_semihostcmd(W0, <<8192, 256>>), WMax)
    /\ get_r(core, 0) = WMax /\ get_r(pre, 0) = W0
    /\ result = Taken(1)

\* C27: SVC with its condition passed raises SVCall: the outcome of execute
\* shows it to the outer loop, it is not a Taken without any change of state.
C27_SvcRaisesSvcall ==
    Called("SVC") => ~(result.kind = "Taken" /\ core = pre /\ mem = premem)

\* SVC returns Taken with nothing changed
SvcIgnored ==
    /\ Called("SVC") /\ result = Taken(1) /\ core = pre /\ mem = premem

\* the k-th word of the block that starts at base
block_word(m, base, k) == read32(m, u32_add(base, U32(4 * (k - 1))))

\* C28: LDM with register set S and base rn, its condition passed, loads the
\* registers of S in ascending order from the consecutive words at the base
\* address; afterwards rn is base + 4 * |S| if rn is not in S, and the loaded
\* value if it is; a PC in S goes through load_write_pc and the result is
\* Branched.
C28_LdmLoads ==
    (Called("LDM") /\ aligned(get_r(pre, instr.rn), 4))
        => LET base == get_r(pre, instr.rn)
               regs == iter(instr.registers)
           IN  /\ result.kind = IF PC \in instr.registers THEN "Branched" ELSE "Taken"
               /\ \A k \in 1..Len(regs) :
                     IF regs[k] = PC
                     THEN /\ pcw = {"load_write_pc"}
                          /\ core.pc = load_write_pc(pre, block_word(premem, base, k)).pc
                     ELSE get_r(core, regs[k]) = block_word(premem, base, k)
               /\ instr.rn \notin instr.registers
                     => get_r(core, instr.rn)
                          = u32_add(base, U32(4 * Cardinality(instr.registers)))
               /\ mem = premem

\* where the address arithmetic wraps LDM is as stated
LdmWhenWrapping == ~overflow_checks => C28_LdmLoads

\* as it is for a block that ends below the top of the address space
LdmBelowTop ==
    ~u32_add_overflows(get_r(pre, instr.rn), U32(4 * Cardinality(instr.registers)))
        => C28_LdmLoads

\* LDM r1, {r1, r4} with r1 = 0x2000_0100: r1 holds the word loaded
LdmBaseInList ==
    /\ Called("LDM") /\ instr.registers = {1, 4}
    /\ get_r(pre, 1) = <<8192, 256>>
    /\ result = Taken(3) /\ get_r(core, 1) = U32(769) /\ get_r(core, 4) = <<8192, 512>>

\* LDM r1, {r4, r5} with r1 = 0xFFFF_FFFC where overflow is checked
LdmAtTopAborts ==
    /\ Called("LDM") /\ instr.registers = {4, 5}
    /\ get_r(pre, 1) = <<Half - 1, Half - 4>> /\ overflow_checks
    /\ result.kind = "Panic"

\* C30: after a BLX rm at address A, its condition passed, LR is A + 2 with
\* bit 0 set, the address of the next instruction with the Thumb bit, the
\* branch goes to the value rm held before, rm = LR included, and the result
\* is Branched.
C30_BlxLinksAndBranches ==
    (phase = "executed" /\ instr.op = "BLX" /\ condition_passed(pre))
        => /\ result.kind = "Branched"
           /\ core.lr = set_bit0(u32_add(pre.pc, U32(2)))
           /\ core.pc = clear_bit0(get_r(pre, instr.rm))
           /\ pcw = {"blx_write_pc"}

\* where the arithmetic wraps, BLX does as stated from every address
BlxWhenWrapping == ~overflow_checks => C30_BlxLinksAndBranches

\* as it does from every address but the last word of the address space
BlxBelowTop == pre.pc # <<Half - 1, Half - 4>> => C30_BlxLinksAndBranches

\* BLX lr at 0x1000 with lr = 0x200: to 0x200, lr = 0x1003
BlxThroughLr ==
    /\ phase = "executed" /\ instr.op = "BLX" /\ instr.rm = LR
    /\ pre.pc = U32(4096) /\ pre.lr = U32(512)
    /\ core.pc = U32(512) /\ core.lr = U32(4099) /\ result = Branched(3)

\* BLX r2 at 0xFFFF_FFFC where overflow is checked: pc - 2 with pc = 0
BlxAtTopAborts ==
    /\ phase = "executed" /\ instr.op = "BLX" /\ pre.pc = <<Half - 1, Half - 4>>
    /\ overflow_checks /\ result.kind = "Panic"

(***************************************************************************)
(* The arms with a setflags field, over the operands and the flags         *)

LogicalOps ==
    {"AND_reg", "ORR_reg", "EOR_reg", "BIC_reg", "MVN_reg", "MOV_reg", "MOV_imm",
     "MUL", "TST_reg"}

RegisterOps ==
    {"ADC_reg", "SBC_reg", "ADD_reg", "SUB_reg", "ASR_reg", "LSL_reg", "LSR_reg",
     "ROR_reg", "MUL", "AND_reg", "ORR_reg", "EOR_reg", "BIC_reg", "MOV_reg",
     "MVN_reg"}

ImmediateOps == {"ADD_imm", "SUB_imm", "RSB_imm", "MOV_imm", "ORR_imm", "MVN_imm"}

ShiftImmOps == {"ASR_imm", "LSL_imm", "LSR_imm"}

SetflagsOps == RegisterOps \cup ImmediateOps \cup ShiftImmOps

FlagInstrs ==
    {DP(op, 2, 0, 1, s) : op \in RegisterOps, s \in BOOLEAN}
    \cup {DPI(op, 2, 0, y, s) : op \in ImmediateOps, y \in {W0, WMax}, s \in BOOLEAN}
    \cup {SHI(op, 2, 1, n, s) : op \in ShiftImmOps, n \in {0, 1, 31}, s \in BOOLEAN}
    \cup {DP("TST_reg", 0, 0, 1, FALSE)}

\* N, Z, C, V before the call: each flag set in some, clear in others
FlagValues ==
    { <<FALSE, FALSE, FALSE, FALSE>>, <<TRUE, FALSE, TRUE, TRUE>>,
      <<FALSE, TRUE, TRUE, FALSE>>, <<TRUE, TRUE, FALSE, TRUE>> }

FlagsInit ==
    \E x \in Operands, y \in Operands, f \in FlagValues, oc \in BOOLEAN :
        InitWith(AluCore(x, y, f), Mem0, oc, "fetch", NoTrace)

FlagsExecute ==
    /\ phase = "fetch"
    /\ steps = 0
    /\ \E i \in FlagInstrs : Call(i, W0, "executed")
    /\ UNCHANGED saved

FlagsNext == FlagsExecute \/ Retire

SpecFlags == FlagsInit /\ [][FlagsNext]_vars

\* the arm sets flags: TST_reg has no setflags field and always does
sets_flags(i) == i.setflags \/ i.op = "TST_reg"

\* C29: an arm with a setflags field leaves N, Z, C and V alone when
\* setflags is false, and the logical arms (AND_reg, ORR_reg, EOR_reg,
\* BIC_reg, MVN_reg, MOV_reg, MOV_imm, MUL, TST_reg) leave C and V alone when
\* they set flags.
C29_FlagsFrame ==
    (phase = "executed" /\ steps = 1)
        => /\ (instr.op \in SetflagsOps /\ ~instr.setflags)
                 => flags(core) = flags(pre)
           /\ (instr.op \in LogicalOps /\ sets_flags(instr))
                 => core.c = pre.c /\ core.v = pre.v

\* ANDS r2, r0, r1 with C and V set and a zero result: Z set, N cleared, C
\* and V still set
C29_Witness ==
    /\ phase = "executed" /\ steps = 1
    /\ instr = DP("AND_reg", 2, 0, 1, TRUE)
    /\ flags(pre) = <<TRUE, FALSE, TRUE, TRUE>>
    /\ flags(core) = <<FALSE, TRUE, TRUE, TRUE>>
    /\ result = Taken(1)

\* ADC r2, r0, r1 without setflags: a carry out of the sum, C still clear
AdcKeepsFlags ==
    /\ phase = "executed" /\ steps = 1
    /\ instr = DP("ADC_reg", 2, 0, 1, FALSE)
    /\ get_r(pre, 0) = WMax /\ get_r(pre, 1) = U32(1)
    /\ flags(core) = <<FALSE, FALSE, FALSE, FALSE>> /\ get_r(core, 2) = W0

(***************************************************************************)
(* LDR_imm and STR_imm over the addressing modes                           *)

\* 0, 4, 0x2000_0100, 0xFFFF_FFFC
LsBases == {W0, U32(4), <<8192, 256>>, <<Half - 1, Half - 4>>}

LsOffsets == {W0, U32(4), U32(8)}

\* r1 = base, r4 = 0xAA
LsCore(base) == [Core0(FALSE) EXCEPT !.r[1] = base]

LsInstrs ==
    {LSX(op, rt, 1, imm, index, add, wback) :
        op \in {"LDR_imm", "STR_imm"}, rt \in {1, 4}, imm \in LsOffsets,
        index \in BOOLEAN, add \in BOOLEAN, wback \in BOOLEAN}
    \cup {LSX("LDR_imm", PC, 1, imm, index, add, wback) :
             imm \in LsOffsets, index \in BOOLEAN, add \in BOOLEAN, wback \in BOOLEAN}

LsInit ==
    \E base \in LsBases, oc \in BOOLEAN :
        InitWith(LsCore(base), Mem0, oc, "fetch", NoTrace)

LsExecute ==
    /\ phase = "fetch"
    /\ steps = 0
    /\ \E i \in LsInstrs : Call(i, W0, "executed")
    /\ UNCHANGED saved

LsNext == LsExecute \/ Retire

SpecLdrStr == LsInit /\ [][LsNext]_vars

\* rn + imm32 or rn - imm32, modulo 2^32
mode_offset_address(c, i) ==
    IF i.add THEN u32_add(get_r(c, i.rn), i.imm32) ELSE u32_sub(get_r(c, i.rn), i.imm32)

\* the address the mode accesses
mode_address(c, i) == IF i.index THEN mode_offset_address(c, i) ELSE get_r(c, i.rn)

\* C31: for LDR_imm and STR_imm with the condition passed, offset_address is
\* rn + imm32 if add and rn - imm32 if not, the access is at offset_address
\* if index and at rn if not, rn is written with offset_address exactly when
\* wback is set, STR stores the rt of before the write-back, and LDR with
\* rt = PC goes through load_write_pc and returns Branched.
C31_AddressingModes ==
    (/\ phase = "executed" /\ steps = 1
     /\ instr.op \in {"LDR_imm", "STR_imm"} /\ condition_passed(pre))
        => LET address == mode_address(pre, instr)
               data    == read32(premem, address)
           IN  /\ instr.op = "STR_imm"
                     => /\ result.kind = "Taken"
                        /\ mem = write32(premem, address, get_r(pre, instr.rt))
               /\ (instr.op = "LDR_imm" /\ instr.rt # PC)
                     => /\ result.kind = "Taken"
                        /\ get_r(core, instr.rt) = data
                        /\ mem = premem
               /\ (instr.op = "LDR_imm" /\ instr.rt = PC)
                     => /\ result.kind = "Branched"
                        /\ core.pc = load_write_pc(pre, data).pc
                        /\ "load_write_pc" \in pcw
                        /\ mem = premem
               /\ (instr.op = "STR_imm" \/ instr.rt # instr.rn)
                     => get_r(core, instr.rn)
                          = IF instr.wback THEN mode_offset_address(pre, instr)
                            ELSE get_r(pre, instr.rn)

\* where the arithmetic wraps the modes are as stated
AddressingModesWhenWrapping == ~overflow_checks => C31_AddressingModes

\* as they are whenever rn + imm32 or rn - imm32 stays within 32 bits
AddressingModesInRange ==
    ~(IF instr.add THEN u32_add_overflows(get_r(pre, instr.rn), instr.imm32)
      ELSE u32_sub_overflows(get_r(pre, instr.rn), instr.imm32))
        => C31_AddressingModes

\* STR r1, [r1], #4 (post-indexed) with r1 = 0x2000_0100: the old r1 is
\* stored at the old r1 and r1 becomes 0x2000_0104
StrPostIndexed ==
    /\ phase = "executed" /\ steps = 1
    /\ instr = LSX("STR_imm", 1, 1, U32(4), FALSE, TRUE, TRUE)
    /\ get_r(pre, 1) = <<8192, 256>>
    /\ read32(mem, <<8192, 256>>) = <<8192, 256>>
    /\ get_r(core, 1) = <<8192, 260>> /\ result = Taken(2)

\* LDR r4, [r1, #-4] with r1 = 0 where overflow is checked
LdrBelowZeroAborts ==
    /\ phase = "executed" /\ steps = 1
    /\ instr = LSX("LDR_imm", 4, 1, U32(4), TRUE, FALSE, FALSE)
    /\ get_r(pre, 1) = W0 /\ overflow_checks
    /\ result.kind = "Panic"

(***************************************************************************)
(* IT over every firstcond and mask                                        *)

\* the four bits of firstcond and of mask in the IT encoding
Conds == 0..15

Masks == 0..15

ItStateInit ==
    \E c \in Cores, its \in ItStates, oc \in BOOLEAN :
        InitWith(set_itstate(c, its), Mem0, oc, "fetch", NoTrace)

ItOnce ==
    /\ phase = "fetch"
    /\ steps = 0
    /\ \E firstcond \in Conds, mask \in Masks :
          Call(ITins(firstcond, mask), W0, "executed")
    /\ UNCHANGED saved

ItStateNext == ItOnce \/ Retire

SpecItState == ItStateInit /\ [][ItStateNext]_vars

\* (firstcond << 4) | mask as a byte
it_byte(firstcond, mask) == u32_or(U32(firstcond * 16), U32(mask))[2] % 256

\* C32: after IT with firstcond and mask the IT-state byte is
\* (firstcond << 4) | mask, for each 4-bit firstcond and each 4-bit mask; IT
\* returns Taken whatever the state, and no register and no flag changes.
C32_ItStateByte ==
    (phase = "executed" /\ steps = 1 /\ instr.op = "IT")
        => /\ result.kind = "Taken"
           /\ core.itstate = it_byte(instr.firstcond, instr.mask)
           /\ core = [pre EXCEPT !.itstate = core.itstate]
           /\ mem = premem

\* ITTE NE (mask 0b0110) inside a block whose condition EQ fails: 0x16
C32_Witness ==
    /\ phase = "executed" /\ steps = 1 /\ instr.op = "IT"
    /\ instr.firstcond = NE /\ instr.mask = 6
    /\ pre.itstate = 8 /\ ~pre.z
    /\ core.itstate = 22 /\ result = Taken(4)

\* every Exception value
Exceptions ==
    {Named(k) : k \in 1..Len(ExceptionNames)} \cup {Interrupt(n, FALSE) : n \in 0..255}

\* C33: for every Exception value e, Interrupt {n} for n in 0..255 included,
\* u8::from(e) is defined without overflow, Interrupt {n} gives 16 + n, no
\* other exception gives the same number, and Exception::from of the number
\* is e again.
C33_EncodeTotalInverse ==
    /\ phase = "value_encoded"
          => LET e == saved.trace[1]
                 v == saved.trace[2]
             IN  /\ v.ok /\ ~v.wrapped
                 /\ e.tag = "Interrupt" => v.value = 16 + e.n
                 /\ \A e2 \in Exceptions \ {e} :
                       LET v2 == u8_from_exception(e2, overflow_checks)
                       IN  v2.ok => v2.value # v.value
    /\ phase = "decoded_back" => saved.trace[3] = saved.trace[1]

\* for the table and for Interrupt {n} with n < 240 encoding is as stated,
\* the numbers of the interrupts from 240 on left out of the comparison
EncodeBelow240 ==
    /\ (phase = "value_encoded" /\ saved.trace[1].n < 240)
          => LET e == saved.trace[1]
                 v == saved.trace[2]
             IN  /\ v.ok /\ ~v.wrapped
                 /\ e.tag = "Interrupt" => v.value = 16 + e.n
                 /\ \A e2 \in {x \in Exceptions : x.n < 240} \ {e} :
                       u8_from_exception(e2, overflow_checks).value # v.value
    /\ (phase = "decoded_back" /\ saved.trace[1].n < 240)
          => saved.trace[3] = saved.trace[1]

\* u8::from(Interrupt {n: 241}) where overflow is not checked is 1, the
\* number of Reset, and decodes to Reset
InterruptEncodesAsReset ==
    /\ phase = "decoded_back" /\ ~overflow_checks
    /\ saved.trace[1] = Interrupt(241, FALSE)
    /\ saved.trace[2].value = 1 /\ saved.trace[3] = Named(1)

\* u8::from(Interrupt {n: 240}) where overflow is checked
InterruptEncodeAborts ==
    /\ phase = "value_encoded" /\ overflow_checks
    /\ saved.trace[1] = Interrupt(240, FALSE) /\ ~saved.trace[2].ok

\* the arms that compute an address or a branch target
AddressOps ==
    {"LDR_imm", "LDR_reg", "LDRB_imm", "LDRB_reg", "LDRH_imm", "LDRH_reg",
     "LDRSH_reg", "LDRSB_reg", "STR_imm", "STR_reg", "STRB_imm", "STRB_reg",
     "STRH_imm", "STRH_reg", "PUSH", "POP", "LDM", "STM", "CBZ", "TBB", "BL", "B"}

\* C34: the address and target arithmetic of execute is defined for all
\* 32-bit operands and wraps modulo 2^32: the loads and stores, PUSH, CBZ,
\* TBB, BL, B and the per-register increment give the outcome of the wrapping
\* arithmetic, no call aborting on overflow or underflow.
C34_AddressArithmeticWraps ==
    (phase = "executed" /\ steps = 1 /\ instr.op \in AddressOps)
        => LET wrapping == execute(pre, premem, instr, FALSE, W0)
           IN  /\ result = wrapping.result
               /\ core = wrapping.core
               /\ mem = wrapping.mem

\* PUSH {r4, r5, lr} with SP = 4 where overflow is checked: sp - 12
PushBelowZeroAborts ==
    /\ phase = "executed" /\ steps = 1 /\ instr.op = "PUSH"
    /\ get_r(pre, SP) = U32(4) /\ condition_passed(pre) /\ overflow_checks
    /\ result.kind = "Panic"

\* the same PUSH where it is not: SP = 0xFFFF_FFF8
PushWraps ==
    /\ phase = "executed" /\ steps = 1 /\ instr.op = "PUSH"
    /\ get_r(pre, SP) = U32(4) /\ condition_passed(pre) /\ ~overflow_checks
    /\ result = Taken(4) /\ get_r(core, SP) = <<Half - 1, Half - 8>>

-----------------------------------------------------------------------------
(* decoder/cmp.rs; a 16-bit opcode is a word with the upper half 0 *)

\* the 12-bit modified immediate i:imm3:imm8 as a 32-bit constant
thumb_expand_imm(imm12) ==
    LET imm8 == imm12 % 256
    IN  IF imm12 \div 1024 = 0
        THEN CASE (imm12 \div 256) % 4 = 0 -> <<0, imm8>>
               [] (imm12 \div 256) % 4 = 1 -> <<imm8, imm8>>
               [] (imm12 \div 256) % 4 = 2 -> <<imm8 * 256, imm8 * 256>>
               [] OTHER                    -> <<imm8 * 257, imm8 * 257>>
        ELSE shift_c(U32(128 + (imm12 % 128)), "ROR", imm12 \div 128, FALSE).result

decode_CMP_imm_t1(opcode) ==
    [Ins("CMP_imm") EXCEPT !.rn = reg_from(bitfield_get_bits(opcode, 8, 11)),
                           !.imm32 = bitfield_get_bits(opcode, 0, 8),
                           !.thumb32 = FALSE]

decode_CMP_imm_t2(opcode) ==
    LET rn   == bitfield_get_bits(opcode, 16, 20)
        imm3 == bitfield_get_bits(opcode, 12, 15)[2]
        imm8 == bitfield_get_bits(opcode, 0, 8)[2]
        i    == Bit(opcode, 26)
    IN  [Ins("CMP_imm") EXCEPT !.rn = reg_from(rn),
                               !.imm32 = thumb_expand_imm(i * 2048 + imm3 * 256 + imm8),
                               !.thumb32 = TRUE]

decode_CMP_reg_t1(opcode) ==
    [Ins("CMP_reg") EXCEPT !.rn = reg_from(bitfield_get_bits(opcode, 0, 3)),
                           !.rm = reg_from(bitfield_get_bits(opcode, 3, 6)),
                           !.shift_t = "LSL", !.shift_n = 0, !.thumb32 = FALSE]

\* a decode_CMP_reg_t2 that leaves bit 7 out of rn
decode_CMP_reg_t2_low_rn(opcode) ==
    [Ins("CMP_reg") EXCEPT !.rn = reg_from(bitfield_get_bits(opcode, 0, 3)),
                           !.rm = reg_from(bitfield_get_bits(opcode, 3, 7)),
                           !.shift_t = "LSL", !.shift_n = 0, !.thumb32 = FALSE]

decode_CMP_reg_t2(opcode) ==
    [Ins("CMP_reg") EXCEPT
        !.rn = reg_from(U32(Bit(opcode, 7) * 8 + bitfield_get_bits(opcode, 0, 3)[2])),
        !.rm = reg_from(bitfield_get_bits(opcode, 3, 7)),
        !.shift_t = "LSL", !.shift_n = 0, !.thumb32 = FALSE]

decode_CMP_reg_t3(opcode) ==
    LET imm3  == bitfield_get_bits(opcode, 12, 15)[2]
        imm2  == bitfield_get_bits(opcode, 6, 8)[2]
        type_ == bitfield_get_bits(opcode, 4, 6)[2]
        shift == decode_imm_shift(type_, imm3 * 4 + imm2)
    IN  [Ins("CMP_reg") EXCEPT !.rm = reg_from(bitfield_get_bits(opcode, 0, 4)),
                               !.rn = reg_from(bitfield_get_bits(opcode, 16, 20)),
                               !.shift_t = shift[1], !.shift_n = shift[2],
                               !.thumb32 = TRUE]

\* 16-bit opcodes: bits 0..10 all values, bits 11..15 of CMP and others
Opcodes16 ==
    {<<0, top * 2048 + low>> : top \in {0, 5, 8, 31}, low \in 0..2047}

\* 32-bit opcodes: rn, i, imm3, imm2, type and rm over their values
Opcodes32 ==
    {<<60320 + i * 1024 + rn, imm3 * 4096 + rd * 256 + imm2 * 64 + type * 16 + rm>> :
        i \in 0..1, rn \in {0, 1, 8, 13, 15}, imm3 \in 0..7, rd \in {0, 15},
        imm2 \in 0..3, type \in 0..3, rm \in {0, 1, 7, 8, 15}}

DecodeInit ==
    \E opcode \in Opcodes16 \cup Opcodes32 :
        InitWith(Core0(FALSE), EmptyMem, FALSE, "opcode",
                 [core |-> Core0(FALSE), mem |-> EmptyMem,
                  program |-> <<opcode>>, trace |-> <<>>])

\* the decoder is handed an opcode of its width
Decode(width, name, i) ==
    /\ (width = 16) = (saved.program[1] \in Opcodes16)
    /\ instr' = i
    /\ phase' = name
    /\ UNCHANGED <<core, mem, result, pre, premem, pcw, semihost_calls,
                   overflow_checks, steps, saved>>

CmpImmT1 == phase = "opcode" /\ Decode(16, "imm_t1", decode_CMP_imm_t1(saved.program[1]))

CmpImmT2 == phase = "opcode" /\ Decode(32, "imm_t2", decode_CMP_imm_t2(saved.program[1]))

CmpRegT1 == phase = "opcode" /\ Decode(16, "reg_t1", decode_CMP_reg_t1(saved.program[1]))

CmpRegT2 == phase = "opcode" /\ Decode(16, "reg_t2", decode_CMP_reg_t2(saved.program[1]))

CmpRegT3 == phase = "opcode" /\ Decode(32, "reg_t3", decode_CMP_reg_t3(saved.program[1]))

DecodeNext == CmpImmT1 \/ CmpImmT2 \/ CmpRegT1 \/ CmpRegT2 \/ CmpRegT3

SpecDecode == DecodeInit /\ [][DecodeNext]_vars

\* bits lo..hi-1 of the half-word h as a number
bits_of(h, lo, hi) == (h \div (2^lo)) % (2^(hi - lo))

\* C36: for every opcode, decode_CMP_imm_t1 gives rn = bits 8..11 and
\* imm32 = bits 0..8 zero-extended; decode_CMP_reg_t1 rn = bits 0..3 and
\* rm = bits 3..6; decode_CMP_reg_t2 rn = (bit 7 << 3) + bits 0..3 and
\* rm = bits 3..7; decode_CMP_reg_t3 rn = bits 16..20, rm = bits 0..4 and the
\* shift of decode_imm_shift(type, imm3:imm2); the 16-bit forms give LSL #0,
\* and thumb32 is true exactly for the decoders of a 32-bit opcode.
C36_CmpDecoders ==
    LET hi == saved.program[1][1]
        lo == saved.program[1][2]
    IN  /\ phase = "imm_t1"
              => /\ instr.op = "CMP_imm" /\ ~instr.thumb32
                 /\ instr.rn = bits_of(lo, 8, 11)
                 /\ instr.imm32 = <<0, bits_of(lo, 0, 8)>>
        /\ phase = "imm_t2"
              => /\ instr.op = "CMP_imm" /\ instr.thumb32
                 /\ instr.rn = bits_of(hi, 0, 4)
        /\ phase = "reg_t1"
              => /\ instr.op = "CMP_reg" /\ ~instr.thumb32
                 /\ instr.rn = bits_of(lo, 0, 3) /\ instr.rm = bits_of(lo, 3, 6)
                 /\ instr.shift_t = "LSL" /\ instr.shift_n = 0
        /\ phase = "reg_t2"
              => /\ instr.op = "CMP_reg" /\ ~instr.thumb32
                 /\ instr.rn = bits_of(lo, 7, 8) * 8 + bits_of(lo, 0, 3)
                 /\ instr.rm = bits_of(lo, 3, 7)
                 /\ instr.shift_t = "LSL" /\ instr.shift_n = 0
        /\ phase = "reg_t3"
              => /\ instr.op = "CMP_reg" /\ instr.thumb32
                 /\ instr.rn = bits_of(hi, 0, 4) /\ instr.rm = bits_of(lo, 0, 4)
                 /\ <<instr.shift_t, instr.shift_n>>
                      = decode_imm_shift(bits_of(lo, 4, 6),
                                         bits_of(lo, 12, 15) * 4 + bits_of(lo, 6, 8))

\* CMP r8, r1 (T2, 0x4588): rn reached by bit 7
C36_Witness ==
    /\ phase = "reg_t2" /\ saved.program[1] = <<0, 17800>>
    /\ instr.rn = 8 /\ instr.rm = 1 /\ ~instr.thumb32

\* CMP.W r1, r8, ASR #32 (T3, 0xEBB1 0x0F28): imm3:imm2 = 0 read as 32
CmpRegT3Asr32 ==
    /\ phase = "reg_t3" /\ saved.program[1][2] = 3880
    /\ instr.rm = 8 /\ instr.shift_t = "ASR" /\ instr.shift_n = 32 /\ instr.thumb32

(***************************************************************************)
(* SUB_reg and CMP_reg (T3) with a shifted second operand                  *)

\* imm3:imm2 of the opcode, imm5 of the shift
ShiftAmounts == {0, 1, 31}

\* CMP.W r0, r1, <shift>: 0xEBB0, imm3 : 1111 : imm2 : type : 0001
CmpShiftedOpcodes ==
    {<<60336, (n \div 4) * 4096 + 3840 + (n % 4) * 64 + type * 16 + 1>> :
        type \in 0..3, n \in ShiftAmounts}

\* SUBS.W r2, r0, r1, <shift>
SubShifted(type, imm5) ==
    [DP("SUB_reg", 2, 0, 1, TRUE) EXCEPT !.shift_t = decode_imm_shift(type, imm5)[1],
                                         !.shift_n = decode_imm_shift(type, imm5)[2],
                                         !.thumb32 = TRUE]

ShiftedInit ==
    \E x \in Operands, y \in Operands, f \in FlagValues, oc \in BOOLEAN :
        InitWith(AluCore(x, y, f), Mem0, oc, "fetch", NoTrace)

SubShiftedStep ==
    /\ phase = "fetch"
    /\ steps = 0
    /\ \E type \in 0..3, imm5 \in ShiftAmounts : Call(SubShifted(type, imm5), W0, "executed")
    /\ UNCHANGED saved

CmpShiftedStep ==
    /\ phase = "fetch"
    /\ steps = 0
    /\ \E opcode \in CmpShiftedOpcodes : Call(decode_CMP_reg_t3(opcode), W0, "executed")
    /\ UNCHANGED saved

ShiftedNext == SubShiftedStep \/ CmpShiftedStep \/ Retire

SpecShifted == ShiftedInit /\ [][ShiftedNext]_vars

\* Shift(rm, shift_t, shift_n) with the carry flag of the state
shifted_rm(c, i) == shift_c(get_r(c, i.rm), i.shift_t, i.shift_n, c.c).result

\* N, Z, C, V of x - y
flags_of_difference(x, y) ==
    LET a == add_with_carry(x, u32_xor(y, WMax), TRUE)
    IN  <<IsNeg(a.result), a.result = W0, a.carry, a.overflow>>

\* C35: SUB_reg computes rn - Shift(rm, shift_t, shift_n) and CMP_reg (T3)
\* compares rn with Shift(rm, shift_t, shift_n), for each shift type and
\* amount the decoder yields, not for LSL #0 only.
C35_ShiftApplied ==
    (phase = "executed" /\ steps = 1 /\ instr.op \in {"SUB_reg", "CMP_reg"})
        => LET x == get_r(pre, instr.rn)
               y == shifted_rm(pre, instr)
           IN  /\ result.kind = "Taken"
               /\ flags(core) = flags_of_difference(x, y)
               /\ instr.op = "SUB_reg" => get_r(core, instr.rd) = u32_sub(x, y)

\* with LSL #0 both are as stated
ShiftAppliedForLsl0 ==
    (instr.shift_t = "LSL" /\ instr.shift_n = 0) => C35_ShiftApplied

\* SUBS.W r2, r0, r1, LSL #1 with r0 = 2, r1 = 1 leaves 1, not 0
SubIgnoresShift ==
    /\ phase = "executed" /\ steps = 1 /\ instr.op = "SUB_reg"
    /\ instr.shift_t = "LSL" /\ instr.shift_n = 1
    /\ get_r(pre, 0) = U32(2) /\ get_r(pre, 1) = U32(1)
    /\ get_r(core, 2) = U32(1) /\ ~core.z

\* CMP.W r0, r1, LSL #1 with r0 = 2, r1 = 1 leaves Z clear
CmpIgnoresShift ==
    /\ phase = "executed" /\ steps = 1 /\ instr.op = "CMP_reg"
    /\ instr.shift_t = "LSL" /\ instr.shift_n = 1
    /\ get_r(pre, 0) = U32(2) /\ get_r(pre, 1) = U32(1)
    /\ ~core.z /\ core.c

====
